---- MODULE Spec2Model ----
(***************************************************************************)
(* asn1tools.js: the BER codec engine (tag/length/value framing, signed    *)
(* integers, per-type codecs) as a state machine of encode / decode calls. *)
(*                                                                         *)
(* Octet sequences are sequences over 0..255.  Offsets are 0-based as in   *)
(* the source; data[offset] of the source is data[offset + 1] here.        *)
(* JavaScript values are tagged records:                                   *)
(*   [k |-> "number", i |-> n]    an integral number                       *)
(*   [k |-> "float"]              a non-integral number                    *)
(*   [k |-> "bigint", i |-> n]                                             *)
(*   [k |-> "boolean", b |-> TRUE]                                         *)
(*   [k |-> "string", c |-> <<"a", "b">>]   a string, as its characters    *)
(*   [k |-> "bytes", o |-> <<1, 2>>]        a Uint8Array                   *)
(*   [k |-> "array", a |-> <<v1, v2>>]                                     *)
(*   [k |-> "object", e |-> << <<key, v>>, ... >>]  keys in insertion order*)
(*   [k |-> "null"], [k |-> "undefined"]                                   *)
(* A call returns [ok |-> TRUE, ...] or [ok |-> FALSE, err |-> <kind>].    *)
(***************************************************************************)
EXTENDS Integers, Sequences, FiniteSets, TLC

VARIABLES pc, typ, val, enc, data, dec,
          schema, written, parsed, source, spec, called,
          registries, held, returned,
          listContent, listOffset, listResult

vars ==
  <<pc, typ, val, enc, data, dec, schema, written, parsed, source, spec, called,
    registries, held, returned, listContent, listOffset, listResult>>

\* the variables of the calls on the parser, the compiler and the facade
schemaVars == <<schema, written, parsed, source, spec, called>>

\* the Map objects of the Asn1Compiler instances, the instance whose maps the
\* first returned specification holds, and what those maps held on return
heapVars == <<registries, held, returned>>

\* the locals content, contentOffset and result of SequenceOfType.decode
\* while its loop runs
loopVars == <<listContent, listOffset, listResult>>

(***************************************************************************)
(* Errors (part_005: EncodeError, DecodeError)                             *)
(***************************************************************************)
EncodeError == [ok |-> FALSE, err |-> "EncodeError"]

DecodeError == [ok |-> FALSE, err |-> "DecodeError"]

(***************************************************************************)
(* BER constants (part_005: BER)                                           *)
(***************************************************************************)
CLASS_CONTEXT_SPECIFIC == 128

ENCODING_PRIMITIVE == 0

ENCODING_CONSTRUCTED == 32

TAG_BOOLEAN == 1

TAG_INTEGER == 2

TAG_OCTET_STRING == 4

TAG_NULL == 5

TAG_ENUMERATED == 10

TAG_SEQUENCE == 16

TAG_CHOICE == 255

(***************************************************************************)
(* Bit arithmetic of the source, on the ranges it is used on               *)
(***************************************************************************)
\* a | b on non-negative operands
RECURSIVE BitOr(_, _)
BitOr(a, b) ==
  IF a = 0 THEN b
  ELSE IF b = 0 THEN a
  ELSE (IF (a % 2 = 1) \/ (b % 2 = 1) THEN 1 ELSE 0) + 2 * BitOr(a \div 2, b \div 2)

\* x << s in JavaScript: the low 32 bits of x * 2^s, read as a signed number
Shl32(x, s) ==
  LET low == x % (2 ^ (31 - s))
      top == (x \div (2 ^ (31 - s))) % 2
  IN IF top = 1 THEN ((low * (2 ^ s)) - (2 ^ 30)) - (2 ^ 30) ELSE low * (2 ^ s)

\* TypedArray.prototype.slice(start, end)
Slice(arr, start, end) ==
  LET n == Len(arr)
      rel(x) == IF x < 0 THEN (IF n + x < 0 THEN 0 ELSE n + x)
                ELSE (IF x > n THEN n ELSE x)
      from == rel(start)
      to == rel(end)
  IN IF to <= from THEN << >> ELSE [i \in 1..(to - from) |-> arr[from + i]]

(***************************************************************************)
(* part_003 (ber/encoding): tag and length                                 *)
(***************************************************************************)
\* big-endian base-2^bits digits of temp: the loops "while (temp > 0)
\* { bytes.unshift(temp & mask); temp >>= bits }"
RECURSIVE Digits(_, _)
Digits(temp, bits) ==
  IF temp > 0 THEN Append(Digits(temp \div (2 ^ bits), bits), temp % (2 ^ bits)) ELSE << >>

\* encodeTag with the class and form flags left out of the low-tag-number octet
encodeTag_flagsDropped(tagNumber, flags) ==
  IF tagNumber < 31 THEN << tagNumber >>
  ELSE LET bytes == Digits(tagNumber, 7)
           marked == [i \in 1..Len(bytes) |->
                        IF i < Len(bytes) THEN BitOr(bytes[i], 128) ELSE bytes[i]]
       IN << BitOr(31, flags) >> \o marked

encodeTag(tagNumber, flags) ==
  IF tagNumber < 31 THEN << BitOr(tagNumber, flags) >>
  ELSE LET bytes == Digits(tagNumber, 7)
           marked == [i \in 1..Len(bytes) |->
                        IF i < Len(bytes) THEN BitOr(bytes[i], 128) ELSE bytes[i]]
       IN << BitOr(31, flags) >> \o marked

encodeLength(length) ==
  IF length < 0 THEN EncodeError
  ELSE IF length <= 127 THEN [ok |-> TRUE, bytes |-> << length >>]
  ELSE LET bytes == Digits(length, 8)
       IN IF Len(bytes) > 127 THEN EncodeError
          ELSE [ok |-> TRUE, bytes |-> << BitOr(128, Len(bytes)) >> \o bytes]

\* the high-tag-number loop of decodeTag, entered with length octets read
RECURSIVE decodeTagLoop(_, _, _, _)
decodeTagLoop(d, offset, length, tagNumber) ==
  IF length + offset < Len(d)
  THEN LET byte == d[offset + length + 1]
           length2 == length + 1
           \* (tagNumber << 7) | (byte & 0x7f): the low 7 bits of the shift are 0
           tagNumber2 == Shl32(tagNumber, 7) + (byte % 128)
       IN IF byte < 128 THEN [ok |-> TRUE, tag |-> tagNumber2, length |-> length2]
          ELSE IF length2 > 6 THEN DecodeError
          ELSE decodeTagLoop(d, offset, length2, tagNumber2)
  ELSE [ok |-> TRUE, tag |-> tagNumber, length |-> length]

\* data[offset] is undefined for a negative offset: "firstByte === undefined"
decodeTag(d, offset) ==
  IF offset >= Len(d) THEN DecodeError
  ELSE IF offset < 0 THEN DecodeError
  ELSE LET firstByte == d[offset + 1]
           constructed == (firstByte \div 32) % 2 = 1
       IN IF firstByte % 32 # 31
          THEN [ok |-> TRUE, tag |-> firstByte % 32, length |-> 1,
                constructed |-> constructed]
          ELSE LET r == decodeTagLoop(d, offset, 1, 0)
               IN IF ~r.ok THEN DecodeError
                  ELSE IF offset + r.length > Len(d) THEN DecodeError
                  ELSE [ok |-> TRUE, tag |-> r.tag, length |-> r.length,
                        constructed |-> constructed]

\* the loop "length = (length << 8) | byte" over octets offset+i .. offset+lengthOctets
RECURSIVE decodeLengthLoop(_, _, _, _, _)
decodeLengthLoop(d, offset, i, lengthOctets, length) ==
  IF i <= lengthOctets
  THEN decodeLengthLoop(d, offset, i + 1, lengthOctets,
                        Shl32(length, 8) + d[offset + i + 1])
  ELSE length

\* new DecodeError(message, offset)
DecodeErrorOf(message) == [ok |-> FALSE, err |-> "DecodeError", message |-> message]

decodeLength(d, offset) ==
  IF offset >= Len(d) THEN DecodeErrorOf("Unexpected end of data while reading length")
  ELSE IF offset < 0 THEN DecodeErrorOf("No data available for length")
  ELSE LET firstByte == d[offset + 1]
           lengthOctets == firstByte % 128
       IN IF firstByte < 128 THEN [ok |-> TRUE, length |-> firstByte, octets |-> 1]
          ELSE IF lengthOctets = 0
          THEN DecodeErrorOf("Indefinite length not supported in this context")
          ELSE IF lengthOctets > 4 THEN DecodeErrorOf("Length too large")
          ELSE IF offset + lengthOctets >= Len(d)
          THEN DecodeErrorOf("Unexpected end of data while reading length")
          ELSE [ok |-> TRUE,
                length |-> decodeLengthLoop(d, offset, 1, lengthOctets, 0),
                octets |-> lengthOctets + 1]

(***************************************************************************)
(* part_003 (ber/encoding): signed integers                                *)
(***************************************************************************)
\* the loop "for (i = bytes.length - 1; i >= 0; i--)" of encodeSignedInteger:
\* bytes[i] = (~byte + carry) & 0xff; carry = bytes[i] > 0xff ? 1 : 0
\* (i is 1-based here)
RECURSIVE complementLoop(_, _, _)
complementLoop(bytes, i, carry) ==
  IF i >= 1
  THEN LET nb == ((-(bytes[i]) - 1) + carry) % 256
           carry2 == IF nb > 255 THEN 1 ELSE 0
       IN complementLoop([bytes EXCEPT ![i] = nb], i - 1, carry2)
  ELSE bytes

\* encodeSignedInteger with the sign octet added without testing the MSB
encodeSignedInteger_signOctetAlways(value) ==
  IF value.k = "float" THEN EncodeError
  ELSE IF value.i = 0 THEN [ok |-> TRUE, bytes |-> << 0 >>]
  ELSE LET negative == value.i < 0
           temp == IF negative THEN (-(value.i)) - 1 ELSE value.i
           digits == Digits(temp, 8)
           bytes == IF Len(digits) = 0 THEN << 0 >> ELSE digits
       IN IF negative
          THEN [ok |-> TRUE, bytes |-> << 255 >> \o complementLoop(bytes, Len(bytes), 1)]
          ELSE [ok |-> TRUE, bytes |-> << 0 >> \o bytes]

\* value: a "number", "float" or "bigint" value
encodeSignedInteger(value) ==
  IF value.k = "float" THEN EncodeError
  ELSE IF value.i = 0 THEN [ok |-> TRUE, bytes |-> << 0 >>]
  ELSE LET negative == value.i < 0
           temp == IF negative THEN (-(value.i)) - 1 ELSE value.i
           digits == Digits(temp, 8)
           bytes == IF Len(digits) = 0 THEN << 0 >> ELSE digits
       IN IF negative
          THEN LET comp == complementLoop(bytes, Len(bytes), 1)
               IN [ok |-> TRUE,
                   bytes |-> IF comp[1] < 128 THEN << 255 >> \o comp ELSE comp]
          ELSE [ok |-> TRUE,
                bytes |-> IF bytes[1] >= 128 THEN << 0 >> \o bytes ELSE bytes]

\* the loops "result = (result << 8n) | BigInt(byte)"
RECURSIVE accumulate(_, _)
accumulate(bytes, n) ==
  IF n = 0 THEN 0 ELSE accumulate(bytes, n - 1) * 256 + bytes[n]

\* the loop "subtract 1 and invert" of decodeSignedInteger (i is 1-based here)
RECURSIVE borrowLoop(_, _, _)
borrowLoop(bytes, i, borrow) ==
  IF i >= 1
  THEN LET sub == bytes[i] - borrow
           wrapped == IF sub < 0 THEN sub + 256 ELSE sub
           borrow2 == IF sub < 0 THEN 1 ELSE 0
           inverted == ((-wrapped) - 1) % 256
       IN borrowLoop([bytes EXCEPT ![i] = inverted], i - 1, borrow2)
  ELSE bytes

\* returns the bigint as an integer
decodeSignedInteger(d) ==
  IF Len(d) = 0 THEN DecodeError
  ELSE IF d[1] >= 128
       THEN LET bytes == borrowLoop(d, Len(d), 1)
            IN [ok |-> TRUE, value |-> (-(accumulate(bytes, Len(bytes)))) - 1]
       ELSE [ok |-> TRUE, value |-> accumulate(d, Len(d))]

\* every integer of the model lies within the safe range
\* (Number.MIN_SAFE_INTEGER .. Number.MAX_SAFE_INTEGER), where the result is
\* Number(value)
toSafeNumber(value) == [k |-> "number", i |-> value]

(***************************************************************************)
(* JavaScript values                                                       *)
(***************************************************************************)
Undefined == [k |-> "undefined"]

Null == [k |-> "null"]

Num(n) == [k |-> "number", i |-> n]

Big(n) == [k |-> "bigint", i |-> n]

Bool(b) == [k |-> "boolean", b |-> b]

Str(chars) == [k |-> "string", c |-> chars]

Bytes(octets) == [k |-> "bytes", o |-> octets]

Arr(items) == [k |-> "array", a |-> items]

Obj(entries) == [k |-> "object", e |-> entries]

\* "!value || typeof value !== 'object'" is false: a non-null object
IsObject(value) == value.k \in {"object", "array", "bytes"}

\* value[key] for a member or alternative name (never an index or "length")
Get(value, key) ==
  IF value.k = "object" /\ \E i \in 1..Len(value.e) : value.e[i][1] = key
  THEN value.e[CHOOSE i \in 1..Len(value.e) : value.e[i][1] = key][2]
  ELSE Undefined

\* result[key] = v on the entries of an object
Put(entries, key, v) ==
  IF \E i \in 1..Len(entries) : entries[i][1] = key
  THEN [i \in 1..Len(entries) |-> IF entries[i][1] = key THEN << key, v >> ELSE entries[i]]
  ELSE Append(entries, << key, v >>)

(***************************************************************************)
(* Codecs: a codec is a record with its kind and construction arguments    *)
(***************************************************************************)
\* BaseType.tag, as set by each constructor's super(name, tag) call
tagOf(type) ==
  CASE type.kind = "INTEGER" -> TAG_INTEGER
    [] type.kind = "BOOLEAN" -> TAG_BOOLEAN
    [] type.kind = "OCTET_STRING" -> TAG_OCTET_STRING
    [] type.kind = "NULL" -> TAG_NULL
    [] type.kind = "ENUMERATED" -> TAG_ENUMERATED
    [] type.kind = "SEQUENCE" -> TAG_SEQUENCE
    [] type.kind = "SEQUENCE_OF" -> TAG_SEQUENCE
    [] type.kind = "CHOICE" -> TAG_CHOICE

\* BaseType.constructed with SequenceOfType's constructor not setting it
constructedOf_sequenceOnly(type) == type.kind = "SEQUENCE"

\* BaseType.constructed
constructedOf(type) == type.kind \in {"SEQUENCE", "SEQUENCE_OF"}

encodeWithTag(type, content) ==
  LET tagBytes == encodeTag(tagOf(type),
                            IF constructedOf(type) THEN ENCODING_CONSTRUCTED
                            ELSE ENCODING_PRIMITIVE)
      lengthBytes == encodeLength(Len(content))
  IN IF ~lengthBytes.ok THEN EncodeError
     ELSE [ok |-> TRUE, bytes |-> tagBytes \o lengthBytes.bytes \o content]

\* decodeWithTag taking the frame only when it ends where the data ends
decodeWithTag_exactLength(type, d, offset) ==
  IF offset >= Len(d) THEN DecodeError
  ELSE LET tagInfo == decodeTag(d, offset)
       IN IF ~tagInfo.ok THEN DecodeError
          ELSE IF tagInfo.tag # tagOf(type) THEN DecodeError
          ELSE LET lengthInfo == decodeLength(d, offset + tagInfo.length)
                   currentOffset == offset + tagInfo.length + lengthInfo.octets
               IN IF ~lengthInfo.ok THEN DecodeError
                  ELSE IF currentOffset + lengthInfo.length # Len(d) THEN DecodeError
                  ELSE [ok |-> TRUE,
                        content |-> Slice(d, currentOffset,
                                          currentOffset + lengthInfo.length),
                        totalLength |-> tagInfo.length + lengthInfo.octets
                                        + lengthInfo.length]

decodeWithTag(type, d, offset) ==
  IF offset >= Len(d) THEN DecodeError
  ELSE LET tagInfo == decodeTag(d, offset)
       IN IF ~tagInfo.ok THEN DecodeError
          ELSE IF tagInfo.tag # tagOf(type) THEN DecodeError
          ELSE LET lengthInfo == decodeLength(d, offset + tagInfo.length)
                   currentOffset == offset + tagInfo.length + lengthInfo.octets
               IN IF ~lengthInfo.ok THEN DecodeError
                  ELSE IF currentOffset + lengthInfo.length > Len(d) THEN DecodeError
                  ELSE [ok |-> TRUE,
                        content |-> Slice(d, currentOffset,
                                          currentOffset + lengthInfo.length),
                        totalLength |-> tagInfo.length + lengthInfo.octets
                                        + lengthInfo.length]

\* type.encode(value) and type.decode(data, offset), dispatched on the codec
RECURSIVE Encode(_, _)
RECURSIVE Decode(_, _, _)

(***************************************************************************)
(* ber/types.ts: INTEGER, BOOLEAN, OCTET STRING, NULL, ENUMERATED          *)
(***************************************************************************)
IntegerType_encode(type, value) ==
  IF value.k \notin {"number", "float", "bigint"} THEN EncodeError
  ELSE LET content == encodeSignedInteger(value)
       IN IF ~content.ok THEN EncodeError ELSE encodeWithTag(type, content.bytes)

IntegerType_decode(type, d, offset) ==
  LET f == decodeWithTag(type, d, offset)
  IN IF ~f.ok THEN DecodeError
     ELSE IF Len(f.content) = 0 THEN DecodeError
     ELSE [ok |-> TRUE,
           value |-> toSafeNumber(decodeSignedInteger(f.content).value),
           length |-> f.totalLength]

BooleanType_encode(type, value) ==
  IF value.k # "boolean" THEN EncodeError
  ELSE encodeWithTag(type, << IF value.b THEN 255 ELSE 0 >>)

BooleanType_decode(type, d, offset) ==
  LET f == decodeWithTag(type, d, offset)
  IN IF ~f.ok THEN DecodeError
     ELSE IF Len(f.content) # 1 THEN DecodeError
     ELSE [ok |-> TRUE, value |-> Bool(f.content[1] # 0), length |-> f.totalLength]

HexChars == << "0", "1", "2", "3", "4", "5", "6", "7", "8", "9",
               "a", "b", "c", "d", "e", "f", "A", "B", "C", "D", "E", "F" >>

IsHexChar(ch) == \E i \in 1..Len(HexChars) : HexChars[i] = ch

\* parseInt(ch, 16) of one hex digit
HexValue(ch) ==
  LET i == CHOOSE j \in 1..Len(HexChars) : HexChars[j] = ch
  IN IF i <= 16 THEN i - 1 ELSE i - 7

\* value.replace(/[^0-9a-fA-F]/g, '')
StripNonHex(chars) == SelectSeq(chars, IsHexChar)

\* new Uint8Array(array) of an array of integral numbers (anything else
\* converts to NaN, stored as 0)
ArrayToBytes(items) ==
  [i \in 1..Len(items) |-> IF items[i].k = "number" THEN items[i].i % 256 ELSE 0]

OctetStringType_encode(type, value) ==
  IF value.k = "bytes" THEN encodeWithTag(type, value.o)
  ELSE IF value.k = "array" THEN encodeWithTag(type, ArrayToBytes(value.a))
  ELSE IF value.k = "string"
  THEN LET hex == StripNonHex(value.c)
       IN IF Len(hex) % 2 # 0 THEN EncodeError
          ELSE encodeWithTag(type,
                 [i \in 1..(Len(hex) \div 2) |->
                    HexValue(hex[2 * i - 1]) * 16 + HexValue(hex[2 * i])])
  ELSE EncodeError

OctetStringType_decode(type, d, offset) ==
  LET f == decodeWithTag(type, d, offset)
  IN IF ~f.ok THEN DecodeError
     ELSE [ok |-> TRUE, value |-> Bytes(f.content), length |-> f.totalLength]

NullType_encode(type, value) ==
  IF value.k \notin {"null", "undefined"} THEN EncodeError
  ELSE encodeWithTag(type, << >>)

NullType_decode(type, d, offset) ==
  LET f == decodeWithTag(type, d, offset)
  IN IF ~f.ok THEN DecodeError
     ELSE IF Len(f.content) # 0 THEN DecodeError
     ELSE [ok |-> TRUE, value |-> Null, length |-> f.totalLength]

\* valueMap.get(name): the last declared pair with that name wins (Map.set)
valueMapHas(type, name) == \E i \in 1..Len(type.values) : type.values[i][1] = name

valueMapGet(type, name) ==
  LET last == CHOOSE i \in 1..Len(type.values) :
                /\ type.values[i][1] = name
                /\ \A j \in (i + 1)..Len(type.values) : type.values[j][1] # name
  IN type.values[last][2]

\* nameMap.get(number): the last declared pair with that number wins
nameMapHas(type, number) == \E i \in 1..Len(type.values) : type.values[i][2] = number

nameMapGet(type, number) ==
  LET last == CHOOSE i \in 1..Len(type.values) :
                /\ type.values[i][2] = number
                /\ \A j \in (i + 1)..Len(type.values) : type.values[j][2] # number
  IN type.values[last][1]

EnumeratedType_encode(type, value) ==
  IF value.k = "string"
  THEN IF ~valueMapHas(type, value.c) THEN EncodeError
       ELSE encodeWithTag(type, encodeSignedInteger(Num(valueMapGet(type, value.c))).bytes)
  ELSE IF value.k = "number"
  THEN IF ~nameMapHas(type, value.i) THEN EncodeError
       ELSE encodeWithTag(type, encodeSignedInteger(value).bytes)
  ELSE EncodeError

EnumeratedType_decode(type, d, offset) ==
  LET f == decodeWithTag(type, d, offset)
  IN IF ~f.ok THEN DecodeError
     ELSE IF Len(f.content) = 0 THEN DecodeError
     ELSE LET numericValue == decodeSignedInteger(f.content).value
          IN IF ~nameMapHas(type, numericValue) THEN DecodeError
             ELSE [ok |-> TRUE, value |-> Str(nameMapGet(type, numericValue)),
                   length |-> f.totalLength]

(***************************************************************************)
(* part_003 (ber/complex-types): SEQUENCE, SEQUENCE OF, CHOICE             *)
(* A member is [name, type, optional, defaultValue], defaultValue being    *)
(* Undefined when none is declared; an alternative is [name, type, hasTag, *)
(* tag], hasTag telling whether choice.tag is defined.                     *)
(***************************************************************************)
\* SequenceType.encode walking the keys of the value instead of the declared
\* members
RECURSIVE encodeMembers_keyOrder(_, _, _)
encodeMembers_keyOrder(members, value, i) ==
  IF value.k # "object" \/ i > Len(value.e) THEN [ok |-> TRUE, bytes |-> << >>]
  ELSE LET key == value.e[i][1]
           known == \E j \in 1..Len(members) : members[j].name = key
           encoded == IF known
                      THEN Encode(members[CHOOSE j \in 1..Len(members) :
                                            members[j].name = key].type, value.e[i][2])
                      ELSE [ok |-> TRUE, bytes |-> << >>]
       IN IF ~encoded.ok THEN EncodeError
          ELSE LET rest == encodeMembers_keyOrder(members, value, i + 1)
               IN IF ~rest.ok THEN EncodeError
                  ELSE [ok |-> TRUE, bytes |-> encoded.bytes \o rest.bytes]

\* the loop "for (const member of this.members)" of SequenceType.encode from
\* member i on: the concatenated member encodings, or the error thrown
RECURSIVE encodeMembers(_, _, _)
encodeMembers(members, value, i) ==
  IF i > Len(members) THEN [ok |-> TRUE, bytes |-> << >>]
  ELSE LET member == members[i]
           memberValue == Get(value, member.name)
           absent == memberValue.k \in {"undefined", "null"}
           skip == absent /\ member.optional
           encoded == IF skip THEN [ok |-> TRUE, bytes |-> << >>]
                      ELSE IF absent
                      THEN (IF member.defaultValue.k # "undefined"
                            THEN Encode(member.type, member.defaultValue)
                            ELSE EncodeError)
                      ELSE Encode(member.type, memberValue)
       IN IF ~encoded.ok THEN EncodeError
          ELSE LET rest == encodeMembers(members, value, i + 1)
               IN IF ~rest.ok THEN EncodeError
                  ELSE [ok |-> TRUE, bytes |-> encoded.bytes \o rest.bytes]

SequenceType_encode(type, value) ==
  IF ~IsObject(value) THEN EncodeError
  ELSE LET content == encodeMembers(type.members, value, 1)
       IN IF ~content.ok THEN EncodeError ELSE encodeWithTag(type, content.bytes)

\* the second loop of SequenceType.decode: the members left when the first
\* loop ends (memberIndex is 0-based)
RECURSIVE missingMembers(_, _, _)
missingMembers(members, memberIndex, result) ==
  IF memberIndex < Len(members)
  THEN LET member == members[memberIndex + 1]
       IN IF ~member.optional /\ member.defaultValue.k = "undefined" THEN DecodeError
          ELSE missingMembers(members, memberIndex + 1,
                 IF member.defaultValue.k # "undefined"
                 THEN Put(result, member.name, member.defaultValue) ELSE result)
  ELSE [ok |-> TRUE, entries |-> result]

\* SequenceType.decode passing over a DEFAULT member that fails to decode
\* without assigning its default value
RECURSIVE decodeMembers_defaultSkipped(_, _, _, _, _)
decodeMembers_defaultSkipped(members, content, contentOffset, memberIndex, result) ==
  IF contentOffset < Len(content) /\ memberIndex < Len(members)
  THEN LET member == members[memberIndex + 1]
           decoded == Decode(member.type, content, contentOffset)
       IN IF decoded.ok
          THEN decodeMembers_defaultSkipped(members, content,
                                            contentOffset + decoded.length,
                                            memberIndex + 1,
                                            Put(result, member.name, decoded.value))
          ELSE IF member.optional \/ member.defaultValue.k # "undefined"
          THEN decodeMembers_defaultSkipped(members, content, contentOffset,
                                            memberIndex + 1, result)
          ELSE DecodeError
  ELSE missingMembers(members, memberIndex, result)

\* the first loop of SequenceType.decode, then the second
RECURSIVE decodeMembers(_, _, _, _, _)
decodeMembers(members, content, contentOffset, memberIndex, result) ==
  IF contentOffset < Len(content) /\ memberIndex < Len(members)
  THEN LET member == members[memberIndex + 1]
           decoded == Decode(member.type, content, contentOffset)
       IN IF decoded.ok
          THEN decodeMembers(members, content, contentOffset + decoded.length,
                             memberIndex + 1, Put(result, member.name, decoded.value))
          ELSE IF member.optional
          THEN decodeMembers(members, content, contentOffset, memberIndex + 1, result)
          ELSE IF member.defaultValue.k # "undefined"
          THEN decodeMembers(members, content, contentOffset, memberIndex + 1,
                             Put(result, member.name, member.defaultValue))
          ELSE DecodeError
  ELSE missingMembers(members, memberIndex, result)

SequenceType_decode(type, d, offset) ==
  LET f == decodeWithTag(type, d, offset)
  IN IF ~f.ok THEN DecodeError
     ELSE LET r == decodeMembers(type.members, f.content, 0, 0, << >>)
          IN IF ~r.ok THEN DecodeError
             ELSE [ok |-> TRUE, value |-> Obj(r.entries), length |-> f.totalLength]

\* the loop "for (let i = 0; i < value.length; i++)" of SequenceOfType.encode
RECURSIVE encodeElements(_, _, _)
encodeElements(elementType, items, i) ==
  IF i > Len(items) THEN [ok |-> TRUE, bytes |-> << >>]
  ELSE LET encoded == Encode(elementType, items[i])
       IN IF ~encoded.ok THEN EncodeError
          ELSE LET rest == encodeElements(elementType, items, i + 1)
               IN IF ~rest.ok THEN EncodeError
                  ELSE [ok |-> TRUE, bytes |-> encoded.bytes \o rest.bytes]

SequenceOfType_encode(type, value) ==
  IF value.k # "array" THEN EncodeError
  ELSE LET content == encodeElements(type.elementType, value.a, 1)
       IN IF ~content.ok THEN EncodeError ELSE encodeWithTag(type, content.bytes)

\* the loop "while (contentOffset < content.length)" of SequenceOfType.decode
RECURSIVE decodeElements(_, _, _, _)
decodeElements(elementType, content, contentOffset, result) ==
  IF contentOffset < Len(content)
  THEN LET decoded == Decode(elementType, content, contentOffset)
       IN IF ~decoded.ok THEN DecodeError
          ELSE decodeElements(elementType, content, contentOffset + decoded.length,
                              Append(result, decoded.value))
  ELSE [ok |-> TRUE, items |-> result]

SequenceOfType_decode(type, d, offset) ==
  LET f == decodeWithTag(type, d, offset)
  IN IF ~f.ok THEN DecodeError
     ELSE LET r == decodeElements(type.elementType, f.content, 0, << >>)
          IN IF ~r.ok THEN DecodeError
             ELSE [ok |-> TRUE, value |-> Arr(r.items), length |-> f.totalLength]

\* choices.get(name): Map.set keeps the last alternative declared with a name
choicesHas(type, name) == \E i \in 1..Len(type.choices) : type.choices[i].name = name

choicesGet(type, name) ==
  type.choices[CHOOSE i \in 1..Len(type.choices) :
                 /\ type.choices[i].name = name
                 /\ \A j \in (i + 1)..Len(type.choices) : type.choices[j].name # name]

\* the key under which the constructor files an alternative in tagToChoice:
\* "choice.tag ?? choice.type.tag"
choiceTag(choice) == IF choice.hasTag THEN choice.tag ELSE tagOf(choice.type)

\* tagToChoice.get(tag): Map.set keeps the last alternative filed under a key
tagToChoiceHas(type, tag) ==
  \E i \in 1..Len(type.choices) : choiceTag(type.choices[i]) = tag

tagToChoiceGet(type, tag) ==
  type.choices[CHOOSE i \in 1..Len(type.choices) :
                 /\ choiceTag(type.choices[i]) = tag
                 /\ \A j \in (i + 1)..Len(type.choices) :
                      choiceTag(type.choices[j]) # tag].name

\* Object.keys(value) has exactly one key, and it names an alternative; keys
\* of arrays and byte buffers are indices, which name no alternative
ChoiceType_encode(type, value) ==
  IF ~IsObject(value) THEN EncodeError
  ELSE IF value.k # "object" THEN EncodeError
  ELSE IF Len(value.e) # 1 THEN EncodeError
  ELSE LET choiceName == value.e[1][1]
           choiceValue == value.e[1][2]
       IN IF Len(choiceName) = 0 THEN EncodeError
          ELSE IF ~choicesHas(type, choiceName) THEN EncodeError
          ELSE LET choice == choicesGet(type, choiceName)
                   innerEncoded == Encode(choice.type, choiceValue)
               IN IF ~innerEncoded.ok THEN EncodeError
                  ELSE IF choice.hasTag
                  THEN LET tagBytes == encodeTag(choice.tag,
                                         BitOr(CLASS_CONTEXT_SPECIFIC, ENCODING_CONSTRUCTED))
                           lengthBytes == encodeLength(Len(innerEncoded.bytes))
                       IN IF ~lengthBytes.ok THEN EncodeError
                          ELSE [ok |-> TRUE,
                                bytes |-> tagBytes \o lengthBytes.bytes \o innerEncoded.bytes]
                  ELSE innerEncoded

ChoiceType_decode(type, d, offset) ==
  IF offset >= Len(d) THEN DecodeError
  ELSE LET tagInfo == decodeTag(d, offset)
       IN IF ~tagInfo.ok THEN DecodeError
          ELSE IF ~tagToChoiceHas(type, tagInfo.tag) THEN DecodeError
          ELSE LET choiceName == tagToChoiceGet(type, tagInfo.tag)
                   choice == choicesGet(type, choiceName)
               IN IF Len(choiceName) = 0 THEN DecodeError
                  ELSE IF choice.hasTag
                  THEN LET lengthInfo == decodeLength(d, offset + tagInfo.length)
                           contentStart == offset + tagInfo.length + lengthInfo.octets
                           contentEnd == contentStart + lengthInfo.length
                       IN IF ~lengthInfo.ok THEN DecodeError
                          ELSE IF contentEnd > Len(d) THEN DecodeError
                          ELSE LET decoded == Decode(choice.type,
                                                Slice(d, contentStart, contentEnd), 0)
                               IN IF ~decoded.ok THEN DecodeError
                                  ELSE [ok |-> TRUE,
                                        value |-> Obj(<< << choiceName, decoded.value >> >>),
                                        length |-> tagInfo.length + lengthInfo.octets
                                                   + lengthInfo.length]
                  ELSE LET decoded == Decode(choice.type, d, offset)
                       IN IF ~decoded.ok THEN DecodeError
                          ELSE [ok |-> TRUE,
                                value |-> Obj(<< << choiceName, decoded.value >> >>),
                                length |-> decoded.length]

Encode(type, value) ==
  CASE type.kind = "INTEGER" -> IntegerType_encode(type, value)
    [] type.kind = "BOOLEAN" -> BooleanType_encode(type, value)
    [] type.kind = "OCTET_STRING" -> OctetStringType_encode(type, value)
    [] type.kind = "NULL" -> NullType_encode(type, value)
    [] type.kind = "ENUMERATED" -> EnumeratedType_encode(type, value)
    [] type.kind = "SEQUENCE" -> SequenceType_encode(type, value)
    [] type.kind = "SEQUENCE_OF" -> SequenceOfType_encode(type, value)
    [] type.kind = "CHOICE" -> ChoiceType_encode(type, value)

Decode(type, d, offset) ==
  CASE type.kind = "INTEGER" -> IntegerType_decode(type, d, offset)
    [] type.kind = "BOOLEAN" -> BooleanType_decode(type, d, offset)
    [] type.kind = "OCTET_STRING" -> OctetStringType_decode(type, d, offset)
    [] type.kind = "NULL" -> NullType_decode(type, d, offset)
    [] type.kind = "ENUMERATED" -> EnumeratedType_decode(type, d, offset)
    [] type.kind = "SEQUENCE" -> SequenceType_decode(type, d, offset)
    [] type.kind = "SEQUENCE_OF" -> SequenceOfType_decode(type, d, offset)
    [] type.kind = "CHOICE" -> ChoiceType_decode(type, d, offset)

(***************************************************************************)
(* The codecs and values the calls are made on                             *)
(***************************************************************************)
IntegerT == [kind |-> "INTEGER"]

BooleanT == [kind |-> "BOOLEAN"]

OctetStringT == [kind |-> "OCTET_STRING"]

NullT == [kind |-> "NULL"]

Member(name, type, optional, defaultValue) ==
  [name |-> name, type |-> type, optional |-> optional, defaultValue |-> defaultValue]

Required(name, type) == Member(name, type, FALSE, Undefined)

Tagged(name, tag, type) == [name |-> name, type |-> type, hasTag |-> TRUE, tag |-> tag]

Untagged(name, type) == [name |-> name, type |-> type, hasTag |-> FALSE, tag |-> 0]

SequenceT(members) == [kind |-> "SEQUENCE", members |-> members]

SequenceOfT(elementType) == [kind |-> "SEQUENCE_OF", elementType |-> elementType]

ChoiceT(choices) == [kind |-> "CHOICE", choices |-> choices]

\* Status ::= ENUMERATED { ok(0), warn(1), fail(-1), late(-2), far(300) }
StatusT ==
  [kind |-> "ENUMERATED",
   values |-> << << << "o", "k" >>, 0 >>, << << "w", "a", "r", "n" >>, 1 >>,
                 << << "f", "a", "i", "l" >>, -1 >>, << << "l", "a", "t", "e" >>, -2 >>,
                 << << "f", "a", "r" >>, 300 >> >>]

\* PingRequest ::= SEQUENCE { messageId LONG }
PingRequestT == SequenceT(<< Required("messageId", IntegerT) >>)

\* PingResponse ::= SEQUENCE { messageId LONG, status INT }
PingResponseT ==
  SequenceT(<< Required("messageId", IntegerT), Required("status", IntegerT) >>)

\* SEQUENCE { a INTEGER OPTIONAL, b INTEGER }
OptionalFirstT ==
  SequenceT(<< Member("a", IntegerT, TRUE, Undefined), Required("b", IntegerT) >>)

\* SEQUENCE { flag BOOLEAN OPTIONAL, count INTEGER, retry BOOLEAN DEFAULT TRUE }
SettingsT ==
  SequenceT(<< Member("flag", BooleanT, TRUE, Undefined), Required("count", IntegerT),
               Member("retry", BooleanT, FALSE, Bool(TRUE)) >>)

\* EmbeddedData ::= SEQUENCE { id INTEGER, data OCTET STRING (SIZE(4)) }
EmbeddedDataT ==
  SequenceT(<< Required("id", IntegerT), Required("data", OctetStringT) >>)

\* SEQUENCE OF INTEGER
IntegerListT == SequenceOfT(IntegerT)

\* SEQUENCE OF EmbeddedData
EmbeddedListT == SequenceOfT(EmbeddedDataT)

\* RequestMessage ::= CHOICE { pingRequest [1] PingRequest,
\*   systemInfoRequest [4] SystemInfoRequest, blob [6] OCTET STRING, urgent [14] BOOLEAN }
RequestMessageT ==
  ChoiceT(<< Tagged("pingRequest", 1, PingRequestT),
             Tagged("systemInfoRequest", 4, PingRequestT),
             Tagged("blob", 6, OctetStringT),
             Tagged("urgent", 14, BooleanT) >>)

\* CHOICE { number INTEGER, flag BOOLEAN, raw OCTET STRING, list SEQUENCE OF INTEGER }
PlainChoiceT ==
  ChoiceT(<< Untagged("number", IntegerT), Untagged("flag", BooleanT),
             Untagged("raw", OctetStringT), Untagged("list", IntegerListT) >>)

\* CHOICE { a [2] BOOLEAN, b INTEGER }: the tags [2] and UNIVERSAL 2
MixedChoiceT ==
  ChoiceT(<< Tagged("a", 2, BooleanT), Untagged("b", IntegerT) >>)

\* CHOICE { wide [40] INTEGER, last [30] NULL }
HighTagChoiceT ==
  ChoiceT(<< Tagged("wide", 40, IntegerT), Tagged("last", 30, NullT) >>)

Codecs ==
  << IntegerT, BooleanT, OctetStringT, NullT, StatusT, PingRequestT, PingResponseT,
     OptionalFirstT, SettingsT, EmbeddedDataT, IntegerListT, EmbeddedListT,
     RequestMessageT, PlainChoiceT, MixedChoiceT, HighTagChoiceT >>

\* integers handed to an INTEGER codec at the top level: |v| <= MaxInt, and
\* the neighbours of the powers of two at the octet boundaries
MaxInt == 300

EdgeExponents == {15, 16, 23, 24}

IntInputs ==
  (-MaxInt..MaxInt)
    \cup {s * (2 ^ e) + dlt : s \in {-1, 1}, e \in EdgeExponents, dlt \in -2..2}

\* integers inside SEQUENCE, SEQUENCE OF and CHOICE values
NestedInts == {-257, -42, -1, 0, 5, 300}

\* octets of OCTET STRING values up to MaxOctets long
MaxOctets == 2

OctetAlphabet == {0, 127, 255}

\* lengths of the long OCTET STRING values: around the short-form limit 127
\* and the one-octet limit 255 of the length field
LongLengths == {127, 128, 255, 256}

LongOctets(n) == [i \in 1..n |-> (i * 7) % 256]

ShortOctetStrings == UNION {[1..n -> OctetAlphabet] : n \in 0..MaxOctets}

\* elements of SEQUENCE OF values, up to MaxElements
MaxElements == 2

\* all orders of all sub-collections of a finite set
Arrangements(S) ==
  {q \in UNION {[1..n -> S] : n \in 0..Cardinality(S)} :
     \A i, j \in 1..Len(q) : i # j => q[i] # q[j]}

memberType(members, name) ==
  members[CHOOSE i \in 1..Len(members) : members[i].name = name].type

\* values of the shape a codec accepts (top: the call is made on this codec
\* itself, so its value set is wide), plus, at the top, values it rejects
RECURSIVE Values(_, _)
Values(type, top) ==
  CASE type.kind = "INTEGER" ->
         IF top
         THEN {Num(n) : n \in IntInputs} \cup {Big(n) : n \in IntInputs}
                \cup {[k |-> "float"], Bool(TRUE), Undefined}
         ELSE {Num(n) : n \in NestedInts}
    [] type.kind = "BOOLEAN" ->
         {Bool(TRUE), Bool(FALSE)} \cup (IF top THEN {Num(1), Null} ELSE {})
    [] type.kind = "OCTET_STRING" ->
         IF top
         THEN {Bytes(o) : o \in ShortOctetStrings}
                \cup {Bytes(LongOctets(n)) : n \in LongLengths}
                \cup {Arr(<< Num(1), Num(256), Num(-1) >>),
                      Str(<< "0", "1", " ", "F", "f", "x", "9", "a" >>),
                      Str(<< "a", "b", "c" >>), Num(5)}
         ELSE {Bytes(<< >>), Bytes(<< 1, 2, 3, 4 >>), Bytes(LongOctets(128))}
    [] type.kind = "NULL" -> {Null} \cup (IF top THEN {Undefined, Num(0)} ELSE {})
    [] type.kind = "ENUMERATED" ->
         {Str(type.values[i][1]) : i \in 1..Len(type.values)}
           \cup {Num(type.values[i][2]) : i \in 1..Len(type.values)}
           \cup (IF top THEN {Str(<< "n", "o" >>), Num(7), Big(0)} ELSE {})
    [] type.kind = "SEQUENCE" ->
         LET names == {type.members[i].name : i \in 1..Len(type.members)}
             vals(name) == Values(memberType(type.members, name), FALSE)
             all == UNION {vals(name) : name \in names}
         IN {Obj([i \in 1..Len(q) |-> << q[i], f[i] >>]) :
               <<q, f>> \in {qf \in UNION {{q2} \X [1..Len(q2) -> all] :
                                             q2 \in Arrangements(names)} :
                               \A i \in 1..Len(qf[1]) : qf[2][i] \in vals(qf[1][i])}}
              \cup (IF top THEN {Null, Num(3)} ELSE {})
    [] type.kind = "SEQUENCE_OF" ->
         LET elems == Values(type.elementType, FALSE)
         IN {Arr(a) : a \in UNION {[1..n -> elems] : n \in 0..MaxElements}}
              \cup (IF top THEN {Obj(<< >>), Null} ELSE {})
    [] type.kind = "CHOICE" ->
         UNION {{Obj(<< << type.choices[i].name, v >> >>) :
                   v \in Values(type.choices[i].type, FALSE)} :
                  i \in 1..Len(type.choices)}
           \cup (IF top
                 THEN {Obj(<< >>), Obj(<< << "other", Num(1) >> >>), Null, Arr(<< Num(1) >>),
                       Obj(<< << type.choices[1].name, Undefined >>, << "x", Num(1) >> >>)}
                 ELSE {})

(***************************************************************************)
(* Octets received from a peer                                             *)
(***************************************************************************)
EdgeOctets == {0, 1, 42, 127, 128, 214, 254, 255}

\* content of a peer's INTEGER: every one- and two-octet content, and
\* three-octet contents over the edge octets
PeerContents ==
  UNION {[1..n -> 0..255] : n \in 1..2} \cup [1..3 -> EdgeOctets]

\* frames of a peer: INTEGER frames with one content octet, two-octet
\* contents over the edge octets, the same under other tags, and short or
\* truncated input
PeerFrames ==
  {<< t, 1, b >> : t \in {1, 2, 4, 10, 130}, b \in 0..255}
    \cup {<< 2, 2, a, b >> : a \in EdgeOctets, b \in EdgeOctets}
    \cup {<< 5, 0 >>, << 2, 0 >>, << 2 >>, << >>, << 2, 3, 1 >>, << 2, 128, 1 >>,
          << 48, 3, 2, 1, 5 >>, << 48, 6, 2, 1, 5, 2, 1, 6 >>, << 48, 0 >>,
          << 48, 3, 1, 1, 255 >>, << 162, 3, 1, 1, 255 >>, << 161, 3, 48, 1, 5 >>}

(***************************************************************************)
(* Calls on the codecs                                                     *)
(***************************************************************************)
\* a value that may be missing: << >> when undefined, << x >> when it is x
None == << >>

Some(x) == << x >>

NoType == [kind |-> "none"]

NoResult == [ok |-> FALSE, err |-> "none"]

\* the Asn1Compiler instances of the program
Compilers == {1, 2}

Init ==
  /\ pc = "idle"
  /\ typ = NoType
  /\ val = Undefined
  /\ enc = NoResult
  /\ data = << >>
  /\ dec = NoResult
  /\ schema = << >>
  /\ written = [tokens |-> << >>, wide |-> {}, sep |-> << >>]
  /\ parsed = NoResult
  /\ source = << >>
  /\ spec = NoResult
  /\ called = << >>
  /\ registries = [c \in Compilers |-> [modules |-> << >>, types |-> << >>]]
  /\ held = None
  /\ returned = NoResult
  /\ listContent = << >>
  /\ listOffset = 0
  /\ listResult = << >>

\* type.encode(value)
EncodeCall ==
  /\ pc = "idle"
  /\ \E t \in 1..Len(Codecs) : \E v \in Values(Codecs[t], TRUE) :
       /\ typ' = Codecs[t]
       /\ val' = v
       /\ enc' = Encode(Codecs[t], v)
  /\ pc' = "encoded"
  /\ UNCHANGED <<data, dec>>
  /\ UNCHANGED <<schemaVars, heapVars, loopVars>>

\* type.decode(encoded): the output of encode is decoded at offset 0
DecodeCall ==
  /\ pc = "encoded"
  /\ enc.ok
  /\ data' = enc.bytes
  /\ dec' = Decode(typ, enc.bytes, 0)
  /\ pc' = "decoded"
  /\ UNCHANGED <<typ, val, enc>>
  /\ UNCHANGED <<schemaVars, heapVars, loopVars>>

\* type.decode(frame) on octets produced by a peer
ReceiveCall ==
  /\ pc = "idle"
  /\ \E t \in 1..Len(Codecs) : \E frame \in PeerFrames :
       /\ typ' = Codecs[t]
       /\ data' = frame
       /\ dec' = Decode(Codecs[t], frame, 0)
  /\ pc' = "received"
  /\ UNCHANGED <<val, enc>>
  /\ UNCHANGED <<schemaVars, heapVars, loopVars>>

Next == EncodeCall \/ DecodeCall \/ ReceiveCall

Spec == Init /\ [][Next]_vars

(***************************************************************************)
(* Calls on the signed-integer primitives                                  *)
(***************************************************************************)
\* encodeSignedInteger(value)
EncodeSignedIntegerCall ==
  /\ pc = "idle"
  /\ \E v \in {Num(n) : n \in IntInputs} \cup {Big(n) : n \in IntInputs}
                \cup {[k |-> "float"]} :
       /\ val' = v
       /\ enc' = encodeSignedInteger(v)
  /\ pc' = "intEncoded"
  /\ UNCHANGED <<typ, data, dec>>
  /\ UNCHANGED <<schemaVars, heapVars, loopVars>>

\* decodeSignedInteger(content) on the content just produced
DecodeSignedIntegerCall ==
  /\ pc = "intEncoded"
  /\ enc.ok
  /\ data' = enc.bytes
  /\ dec' = decodeSignedInteger(enc.bytes)
  /\ pc' = "intDecoded"
  /\ UNCHANGED <<typ, val, enc>>
  /\ UNCHANGED <<schemaVars, heapVars, loopVars>>

\* decodeSignedInteger(content) on content produced by a peer
DecodePeerIntegerCall ==
  /\ pc = "idle"
  /\ \E content \in PeerContents \cup {<< >>} :
       /\ data' = content
       /\ dec' = decodeSignedInteger(content)
  /\ pc' = "intReceived"
  /\ UNCHANGED <<typ, val, enc>>
  /\ UNCHANGED <<schemaVars, heapVars, loopVars>>

NextInt == EncodeSignedIntegerCall \/ DecodeSignedIntegerCall \/ DecodePeerIntegerCall

SpecInt == Init /\ [][NextInt]_vars

(***************************************************************************)
(* src/index.ts (parser): Asn1Parser.  Text is a sequence of characters;   *)
(* the parser's position, line and column are the record p.  A parse       *)
(* function returns [ok |-> TRUE, p |-> <parser state>, v |-> <result>] or *)
(* the ParseError thrown.  A property that may be missing on a parsed      *)
(* object is << >> when undefined and << x >> when it has the value x.     *)
(***************************************************************************)
\* '\0', what peek() returns at the end of the input
NUL == "NUL"

Letters ==
  {"a", "b", "c", "d", "e", "f", "g", "h", "i", "j", "k", "l", "m", "n", "o", "p", "q",
   "r", "s", "t", "u", "v", "w", "x", "y", "z", "A", "B", "C", "D", "E", "F", "G", "H",
   "I", "J", "K", "L", "M", "N", "O", "P", "Q", "R", "S", "T", "U", "V", "W", "X", "Y",
   "Z"}

DecimalDigits == << "0", "1", "2", "3", "4", "5", "6", "7", "8", "9" >>

isAlpha(char) == char \in Letters

isDigit(char) == \E i \in 1..Len(DecimalDigits) : DecimalDigits[i] = char

isAlphaNumeric(char) == isAlpha(char) \/ isDigit(char)

isAtEnd(input, p) == p.position >= Len(input)

peek(input, p) == IF isAtEnd(input, p) THEN NUL ELSE input[p.position + 1]

peekNext(input, p) ==
  IF p.position + 1 >= Len(input) THEN NUL ELSE input[p.position + 2]

advance(input, p) ==
  IF ~isAtEnd(input, p)
  THEN [p EXCEPT !.column = @ + 1, !.position = @ + 1]
  ELSE p

\* input.substring(start, end) for 0 <= start <= end <= input.length
substring(input, start, end) == SubSeq(input, start + 1, end)

\* this.error(message): a ParseError built from the message alone, so its
\* line and column properties stay undefined; the position is in the message
error(message, p) ==
  [ok |-> FALSE, err |-> "ParseError", message |-> message,
   messageLine |-> p.line, messageColumn |-> p.column,
   line |-> Undefined, column |-> Undefined]

Ok(p, v) == [ok |-> TRUE, p |-> p, v |-> v]

\* the inner loop of skipWhitespaceAndComments: to the end of the line
RECURSIVE skipLineComment(_, _)
skipLineComment(input, p) ==
  IF ~isAtEnd(input, p) /\ peek(input, p) # "\n"
  THEN skipLineComment(input, advance(input, p))
  ELSE p

RECURSIVE skipWhitespaceAndComments(_, _)
skipWhitespaceAndComments(input, p) ==
  LET char == peek(input, p)
  IN IF char = " " \/ char = "\t" \/ char = "\r"
     THEN skipWhitespaceAndComments(input, advance(input, p))
     ELSE IF char = "\n"
     THEN skipWhitespaceAndComments(input,
            advance(input, [p EXCEPT !.line = @ + 1, !.column = 1]))
     ELSE IF char = "-" /\ peekNext(input, p) = "-"
     THEN skipWhitespaceAndComments(input, skipLineComment(input, p))
     ELSE p

check(input, p, expected) ==
  IF p.position + Len(expected) > Len(input) THEN FALSE
  ELSE substring(input, p.position, p.position + Len(expected)) = expected

checkKeyword(input, p, keyword) ==
  IF p.position + Len(keyword) > Len(input) THEN FALSE
  ELSE LET slice == substring(input, p.position, p.position + Len(keyword))
           nextChar == IF p.position + Len(keyword) < Len(input)
                       THEN input[p.position + Len(keyword) + 1]
                       ELSE " "
       IN slice = keyword /\ ~isAlphaNumeric(nextChar)

expectKeyword(input, p, keyword) ==
  LET q == skipWhitespaceAndComments(input, p)
  IN IF ~checkKeyword(input, q, keyword) THEN error("Expected keyword", q)
     ELSE Ok([q EXCEPT !.position = @ + Len(keyword)], keyword)

expectToken(input, p, token) ==
  LET q == skipWhitespaceAndComments(input, p)
  IN IF ~check(input, q, token) THEN error("Expected token", q)
     ELSE Ok([q EXCEPT !.position = @ + Len(token)], token)

checkNumber(input, p) ==
  isDigit(peek(input, p)) \/ (peek(input, p) = "-" /\ isDigit(peekNext(input, p)))

\* the loops "while (this.isAlphaNumeric(this.peek())) this.advance()" and
\* "while (this.isDigit(this.peek())) this.advance()"
RECURSIVE advanceWhileAlphaNumeric(_, _)
advanceWhileAlphaNumeric(input, p) ==
  IF isAlphaNumeric(peek(input, p))
  THEN advanceWhileAlphaNumeric(input, advance(input, p))
  ELSE p

RECURSIVE advanceWhileDigit(_, _)
advanceWhileDigit(input, p) ==
  IF isDigit(peek(input, p)) THEN advanceWhileDigit(input, advance(input, p)) ELSE p

parseIdentifier(input, p) ==
  LET q == skipWhitespaceAndComments(input, p)
      r == advanceWhileAlphaNumeric(input, q)
  IN IF ~isAlpha(peek(input, q)) THEN error("Expected identifier", q)
     ELSE Ok(r, substring(input, q.position, r.position))

\* parseInt(digits, 10) of a non-empty run of decimal digits
RECURSIVE parseInt(_)
parseInt(digits) ==
  IF Len(digits) = 0 THEN 0
  ELSE parseInt(SubSeq(digits, 1, Len(digits) - 1)) * 10
         + ((CHOOSE i \in 1..Len(DecimalDigits) :
               DecimalDigits[i] = digits[Len(digits)]) - 1)

parseNumber(input, p) ==
  LET q == skipWhitespaceAndComments(input, p)
      negative == check(input, q, << "-" >>)
      start == IF negative THEN advance(input, q) ELSE q
      r == advanceWhileDigit(input, start)
      value == parseInt(substring(input, start.position, r.position))
  IN IF ~isDigit(peek(input, start)) THEN error("Expected number", start)
     ELSE Ok(r, IF negative THEN -value ELSE value)

\* the loop of parseString: to the closing quote or the end of the input
RECURSIVE advanceToQuote(_, _)
advanceToQuote(input, p) ==
  IF ~check(input, p, << "\"" >>) /\ ~isAtEnd(input, p)
  THEN advanceToQuote(input, advance(input, p))
  ELSE p

parseString(input, p) ==
  LET open == expectToken(input, p, << "\"" >>)
      r == advanceToQuote(input, open.p)
      close == expectToken(input, r, << "\"" >>)
  IN IF ~open.ok THEN open
     ELSE IF ~close.ok THEN close
     ELSE Ok(close.p, substring(input, open.p.position, r.position))

\* the keywords and tokens the parser looks for
Kw_DEFINITIONS == << "D", "E", "F", "I", "N", "I", "T", "I", "O", "N", "S" >>

Kw_BEGIN == << "B", "E", "G", "I", "N" >>

Kw_END == << "E", "N", "D" >>

Kw_INTEGER == << "I", "N", "T", "E", "G", "E", "R" >>

Kw_BOOLEAN == << "B", "O", "O", "L", "E", "A", "N" >>

Kw_OCTET == << "O", "C", "T", "E", "T" >>

Kw_STRING == << "S", "T", "R", "I", "N", "G" >>

Kw_SEQUENCE == << "S", "E", "Q", "U", "E", "N", "C", "E" >>

Kw_CHOICE == << "C", "H", "O", "I", "C", "E" >>

Kw_ENUMERATED == << "E", "N", "U", "M", "E", "R", "A", "T", "E", "D" >>

Kw_NULL == << "N", "U", "L", "L" >>

Kw_OPTIONAL == << "O", "P", "T", "I", "O", "N", "A", "L" >>

Kw_DEFAULT == << "D", "E", "F", "A", "U", "L", "T" >>

Kw_SIZE == << "S", "I", "Z", "E" >>

Kw_TRUE == << "T", "R", "U", "E" >>

Kw_FALSE == << "F", "A", "L", "S", "E" >>

Tk_Assign == << ":", ":", "=" >>

\* a ParsedType with the properties the parser has not set
ParsedType(type) ==
  [name |-> << >>, type |-> type, tag |-> None, optional |-> None, default |-> None,
   constraints |-> None, members |-> None, elementType |-> None, choices |-> None]

\* the constraints object: definedType, values, size, range, value
NoConstraints ==
  [definedType |-> None, values |-> None, size |-> None, range |-> None, value |-> None]

\* { ...old, ...new } on constraints objects
spreadConstraints(old, new) ==
  [definedType |-> IF new.definedType # None THEN new.definedType ELSE old.definedType,
   values |-> IF new.values # None THEN new.values ELSE old.values,
   size |-> IF new.size # None THEN new.size ELSE old.size,
   range |-> IF new.range # None THEN new.range ELSE old.range,
   value |-> IF new.value # None THEN new.value ELSE old.value]

\* One statement after another.  A function of several statements is cut at
\* the calls whose result the later statements use: f_step(input, ..., r) is f
\* from the statement "step" on, given the result r of the call before it, and
\* the definitions of a function read from its last statement to its first.
\* Then(r, next) is next unless the call with the result r threw, and then the
\* error is what the function throws.
Then(r, next) == IF r.ok THEN next ELSE r

\* a call whose own result is not used, followed by "return v"
Returning(r, v) == Then(r, Ok(r.p, v))

parseIntegerType(input, p) ==
  Returning(expectKeyword(input, p, Kw_INTEGER), ParsedType("INTEGER"))

parseBooleanType(input, p) ==
  Returning(expectKeyword(input, p, Kw_BOOLEAN), ParsedType("BOOLEAN"))

parseOctetStringType_string(input, octet) ==
  Then(octet,
       Returning(expectKeyword(input, skipWhitespaceAndComments(input, octet.p),
                               Kw_STRING),
                 ParsedType("OCTET_STRING")))

parseOctetStringType(input, p) ==
  parseOctetStringType_string(input, expectKeyword(input, p, Kw_OCTET))

parseNullType(input, p) ==
  Returning(expectKeyword(input, p, Kw_NULL), ParsedType("NULL"))

parseTag_close(input, tagNumber) ==
  Then(tagNumber, Returning(expectToken(input, tagNumber.p, << "]" >>), tagNumber.v))

parseTag_number(input, open) ==
  Then(open, parseTag_close(input, parseNumber(input, open.p)))

parseTag(input, p) == parseTag_number(input, expectToken(input, p, << "[" >>))

\* the SIZE branch of parseConstraints, entered at the keyword
parseConstraints_size_close(input, size) ==
  Then(size, Returning(expectToken(input, size.p, << ")" >>),
                       [NoConstraints EXCEPT !.size = Some(size.v)]))

parseConstraints_size_number(input, open) ==
  Then(open, parseConstraints_size_close(input, parseNumber(input, open.p)))

parseConstraints_size_open(input, k) ==
  Then(k, parseConstraints_size_number(input, expectToken(input, k.p, << "(" >>)))

parseConstraints_size(input, p) == parseConstraints_size_open(input, expectKeyword(input, p, Kw_SIZE))

\* the range branch of parseConstraints
parseConstraints_range_return(min, max) ==
  Then(max, Ok(max.p, [NoConstraints EXCEPT !.range = Some(<< min.v, max.v >>)]))

parseConstraints_range_max(input, min, dot2) ==
  Then(dot2, parseConstraints_range_return(min, parseNumber(input, dot2.p)))

parseConstraints_range_dot2(input, min, dot1) ==
  Then(dot1, parseConstraints_range_max(input, min, expectToken(input, dot1.p, << "." >>)))

parseConstraints_range_dot1(input, min) ==
  Then(min, IF check(input, min.p, << "." >>)
            THEN parseConstraints_range_dot2(input, min, expectToken(input, min.p, << "." >>))
            ELSE Ok(min.p, [NoConstraints EXCEPT !.value = Some(min.v)]))

parseConstraints_range(input, p) == parseConstraints_range_dot1(input, parseNumber(input, p))

parseConstraints_close(input, constraints) ==
  Then(constraints,
       Returning(expectToken(input, constraints.p, << ")" >>), constraints.v))

parseConstraints_branch(input, open) ==
  Then(open, parseConstraints_close(input,
                                    IF checkKeyword(input, open.p, Kw_SIZE)
                                    THEN parseConstraints_size(input, open.p)
                                    ELSE parseConstraints_range(input, open.p)))

parseConstraints(input, p) ==
  parseConstraints_branch(input, expectToken(input, p, << "(" >>))

\* "return this.parseNumber()", "return this.parseString()" and
\* "return this.parseIdentifier()" of parseValue, as the values of the model
parseValue_number(number) == Then(number, Ok(number.p, Num(number.v)))

parseValue_string(string) == Then(string, Ok(string.p, Str(string.v)))

\* parseValue, entered after its skipWhitespaceAndComments
parseValue_branch(input, q) ==
  IF checkNumber(input, q) THEN parseValue_number(parseNumber(input, q))
  ELSE IF check(input, q, << "\"" >>) THEN parseValue_string(parseString(input, q))
  ELSE IF checkKeyword(input, q, Kw_TRUE)
  THEN Returning(expectKeyword(input, q, Kw_TRUE), Bool(TRUE))
  ELSE IF checkKeyword(input, q, Kw_FALSE)
  THEN Returning(expectKeyword(input, q, Kw_FALSE), Bool(FALSE))
  ELSE IF checkKeyword(input, q, Kw_NULL)
  THEN Returning(expectKeyword(input, q, Kw_NULL), Null)
  ELSE parseValue_string(parseIdentifier(input, q))

parseValue(input, p) == parseValue_branch(input, skipWhitespaceAndComments(input, p))

\* "if (this.check(',')) this.expectToken(',')" of the three member loops
expectCommaIfNext(input, p) ==
  IF check(input, p, << "," >>) THEN expectToken(input, p, << "," >>) ELSE Ok(p, << >>)

\* "this.expectToken('('); value = this.parseNumber(); this.expectToken(')')" of
\* parseEnumeratedType
parseEnumeratedValue_close(input, value) ==
  Then(value, Returning(expectToken(input, value.p, << ")" >>), value.v))

parseEnumeratedValue_number(input, open) ==
  Then(open, parseEnumeratedValue_close(input, parseNumber(input, open.p)))

parseEnumeratedValue(input, p) ==
  parseEnumeratedValue_number(input, expectToken(input, p, << "(" >>))

\* the loop of parseEnumeratedType, entered after "{"
RECURSIVE parseEnumeratedValues(_, _, _, _)

parseEnumeratedValues_next(input, values, name, value, comma) ==
  Then(comma, parseEnumeratedValues(input, comma.p,
                                    Append(values, << name.v, value.v >>), value.v + 1))

parseEnumeratedValues_comma(input, values, name, value) ==
  Then(value, parseEnumeratedValues_next(input, values, name, value,
                                         expectCommaIfNext(input, value.p)))

parseEnumeratedValues_value(input, values, autoValue, name) ==
  Then(name, parseEnumeratedValues_comma(input, values, name,
                                         IF check(input, name.p, << "(" >>)
                                         THEN parseEnumeratedValue(input, name.p)
                                         ELSE Ok(name.p, autoValue)))

parseEnumeratedValues(input, p, values, autoValue) ==
  IF ~check(input, p, << "}" >>) /\ ~isAtEnd(input, p)
  THEN parseEnumeratedValues_value(input, values, autoValue, parseIdentifier(input, p))
  ELSE Ok(p, values)

parseEnumeratedType_close(input, values) ==
  Then(values,
       Returning(expectToken(input, values.p, << "}" >>),
                 [ParsedType("ENUMERATED") EXCEPT
                    !.constraints = Some([NoConstraints EXCEPT
                                            !.values = Some(values.v)])]))

parseEnumeratedType_values(input, open) ==
  Then(open, parseEnumeratedType_close(input,
                                       parseEnumeratedValues(input, open.p, << >>, 0)))

parseEnumeratedType_open(input, k) ==
  Then(k, parseEnumeratedType_values(input, expectToken(input, k.p, << "{" >>)))

parseEnumeratedType(input, p) ==
  parseEnumeratedType_open(input, expectKeyword(input, p, Kw_ENUMERATED))

RECURSIVE parseType(_, _)

\* "if (this.check('[')) { tag = this.parseTag(); this.skipWhitespaceAndComments() }"
\* of a SEQUENCE member and a CHOICE alternative, entered after the whitespace
parseTagIfNext_skip(input, tag) ==
  Then(tag, Ok(skipWhitespaceAndComments(input, tag.p), Some(tag.v)))

parseTagIfNext(input, q) ==
  IF check(input, q, << "[" >>) THEN parseTagIfNext_skip(input, parseTag(input, q))
  ELSE Ok(q, None)

\* the OPTIONAL / DEFAULT part of parseSequenceMember, entered after the whitespace
parseOptionalOrDefault_return(defaultValue) ==
  Then(defaultValue,
       Ok(defaultValue.p, [optional |-> FALSE, default |-> Some(defaultValue.v)]))

parseOptionalOrDefault_value(input, k) ==
  Then(k, parseOptionalOrDefault_return(parseValue(input, k.p)))

parseOptionalOrDefault(input, r) ==
  IF checkKeyword(input, r, Kw_OPTIONAL)
  THEN Returning(expectKeyword(input, r, Kw_OPTIONAL),
                 [optional |-> TRUE, default |-> None])
  ELSE IF checkKeyword(input, r, Kw_DEFAULT)
  THEN parseOptionalOrDefault_value(input, expectKeyword(input, r, Kw_DEFAULT))
  ELSE Ok(r, [optional |-> FALSE, default |-> None])

parseSequenceMember_return(name, tag, type, rest) ==
  Then(rest, Ok(rest.p, [type.v EXCEPT !.name = name.v,
                                       !.tag = tag.v,
                                       !.optional = Some(rest.v.optional),
                                       !.default = rest.v.default]))

parseSequenceMember_optional(input, name, tag, type) ==
  Then(type,
       parseSequenceMember_return(name, tag, type,
         parseOptionalOrDefault(input, skipWhitespaceAndComments(input, type.p))))

parseSequenceMember_type(input, name, tag) ==
  Then(tag, parseSequenceMember_optional(input, name, tag, parseType(input, tag.p)))

parseSequenceMember_tag(input, name) ==
  Then(name,
       parseSequenceMember_type(input, name,
         parseTagIfNext(input, skipWhitespaceAndComments(input, name.p))))

parseSequenceMember(input, p) ==
  parseSequenceMember_tag(input, parseIdentifier(input, p))

\* the loop of parseSequenceType, entered after "{"
RECURSIVE parseSequenceMembers(_, _, _)

parseSequenceMembers_next(input, members, member, comma) ==
  Then(comma, parseSequenceMembers(input, comma.p, Append(members, member.v)))

parseSequenceMembers_comma(input, members, member) ==
  Then(member, parseSequenceMembers_next(input, members, member,
                                         expectCommaIfNext(input, member.p)))

parseSequenceMembers(input, p, members) ==
  IF ~check(input, p, << "}" >>) /\ ~isAtEnd(input, p)
  THEN parseSequenceMembers_comma(input, members, parseSequenceMember(input, p))
  ELSE Ok(p, members)

parseSequenceType_close(input, members) ==
  Then(members,
       Returning(expectToken(input, members.p, << "}" >>),
                 [ParsedType("SEQUENCE") EXCEPT !.members = Some(members.v)]))

parseSequenceType_members(input, open) ==
  Then(open, parseSequenceType_close(input,
                                     parseSequenceMembers(input, open.p, << >>)))

parseSequenceType_open(input, k) ==
  Then(k, parseSequenceType_members(input, expectToken(input, k.p, << "{" >>)))

parseSequenceType(input, p) ==
  parseSequenceType_open(input, expectKeyword(input, p, Kw_SEQUENCE))

parseChoiceAlternative_return(name, tag, type) ==
  Then(type, Ok(type.p, [type.v EXCEPT !.name = name.v, !.tag = tag.v]))

parseChoiceAlternative_type(input, name, tag) ==
  Then(tag, parseChoiceAlternative_return(name, tag, parseType(input, tag.p)))

parseChoiceAlternative_tag(input, name) ==
  Then(name,
       parseChoiceAlternative_type(input, name,
         parseTagIfNext(input, skipWhitespaceAndComments(input, name.p))))

parseChoiceAlternative(input, p) ==
  parseChoiceAlternative_tag(input, parseIdentifier(input, p))

\* the loop of parseChoiceType, entered after "{"
RECURSIVE parseChoiceAlternatives(_, _, _)

parseChoiceAlternatives_next(input, choices, choice, comma) ==
  Then(comma, parseChoiceAlternatives(input, comma.p, Append(choices, choice.v)))

parseChoiceAlternatives_comma(input, choices, choice) ==
  Then(choice, parseChoiceAlternatives_next(input, choices, choice,
                                            expectCommaIfNext(input, choice.p)))

parseChoiceAlternatives(input, p, choices) ==
  IF ~check(input, p, << "}" >>) /\ ~isAtEnd(input, p)
  THEN parseChoiceAlternatives_comma(input, choices, parseChoiceAlternative(input, p))
  ELSE Ok(p, choices)

parseChoiceType_close(input, choices) ==
  Then(choices,
       Returning(expectToken(input, choices.p, << "}" >>),
                 [ParsedType("CHOICE") EXCEPT !.choices = Some(choices.v)]))

parseChoiceType_choices(input, open) ==
  Then(open, parseChoiceType_close(input,
                                   parseChoiceAlternatives(input, open.p, << >>)))

parseChoiceType_open(input, k) ==
  Then(k, parseChoiceType_choices(input, expectToken(input, k.p, << "{" >>)))

parseChoiceType(input, p) ==
  parseChoiceType_open(input, expectKeyword(input, p, Kw_CHOICE))

\* the last branch of parseType: a reference to another type
parseDefinedType_return(typeName) ==
  Then(typeName,
       Ok(typeName.p, [ParsedType("DEFINED") EXCEPT
                         !.constraints = Some([NoConstraints EXCEPT
                                                 !.definedType = Some(typeName.v)])]))

parseDefinedType(input, p) ==
  IF ~isAlpha(peek(input, skipWhitespaceAndComments(input, p)))
  THEN error("Expected type reference (identifier)",
             skipWhitespaceAndComments(input, p))
  ELSE parseDefinedType_return(parseIdentifier(input, p))

\* "{ ...type, constraints: { ...(type.constraints || {}), ...constraints } }"
withConstraints(type, constraints) ==
  [type EXCEPT !.constraints =
     Some(spreadConstraints(IF type.constraints = None THEN NoConstraints
                            ELSE type.constraints[1],
                            constraints))]

\* the end of parseType, entered after the whitespace behind the type
parseType_return(type, constraints) ==
  Then(constraints, Ok(constraints.p, withConstraints(type, constraints.v)))

parseType_constraints(input, r, type) ==
  IF check(input, r, << "(" >>) THEN parseType_return(type, parseConstraints(input, r))
  ELSE Ok(r, type)

parseType_skip(input, type) ==
  Then(type, parseType_constraints(input, skipWhitespaceAndComments(input, type.p),
                                   type.v))

\* the branches of parseType, entered after its skipWhitespaceAndComments
parseType_branch(input, q) ==
  IF checkKeyword(input, q, Kw_INTEGER) THEN parseIntegerType(input, q)
  ELSE IF checkKeyword(input, q, Kw_BOOLEAN) THEN parseBooleanType(input, q)
  ELSE IF checkKeyword(input, q, Kw_OCTET) THEN parseOctetStringType(input, q)
  ELSE IF checkKeyword(input, q, Kw_SEQUENCE) THEN parseSequenceType(input, q)
  ELSE IF checkKeyword(input, q, Kw_CHOICE) THEN parseChoiceType(input, q)
  ELSE IF checkKeyword(input, q, Kw_ENUMERATED) THEN parseEnumeratedType(input, q)
  ELSE IF checkKeyword(input, q, Kw_NULL) THEN parseNullType(input, q)
  ELSE parseDefinedType(input, q)

parseType(input, p) ==
  parseType_skip(input, parseType_branch(input, skipWhitespaceAndComments(input, p)))

parseTypeAssignment_return(name, type) ==
  Then(type, Ok(type.p, [type.v EXCEPT !.name = name.v]))

parseTypeAssignment_type(input, name, assign) ==
  Then(assign, parseTypeAssignment_return(name, parseType(input, assign.p)))

parseTypeAssignment_assign(input, name) ==
  Then(name, parseTypeAssignment_type(input, name,
                                      expectToken(input, name.p, Tk_Assign)))

parseTypeAssignment(input, p) ==
  parseTypeAssignment_assign(input, parseIdentifier(input, p))

\* Map.prototype.has / get / set / delete on a map kept as its entries
\* << key, value >> in insertion order
MapHas(map, key) == \E i \in 1..Len(map) : map[i][1] = key

MapGet(map, key) == map[CHOOSE i \in 1..Len(map) : map[i][1] = key][2]

MapSet(map, key, value) ==
  IF MapHas(map, key)
  THEN [i \in 1..Len(map) |-> IF map[i][1] = key THEN << key, value >> ELSE map[i]]
  ELSE Append(map, << key, value >>)

MapDelete(map, key) == SelectSeq(map, LAMBDA entry : entry[1] # key)

\* the loop of parseModule, entered after BEGIN and the whitespace behind it
RECURSIVE parseTypeAssignments(_, _, _)

parseTypeAssignments_set(input, types, typeAssignment) ==
  Then(typeAssignment,
       parseTypeAssignments(input, skipWhitespaceAndComments(input, typeAssignment.p),
                            MapSet(types, typeAssignment.v.name, typeAssignment.v)))

parseTypeAssignments(input, p, types) ==
  IF ~checkKeyword(input, p, Kw_END) /\ ~isAtEnd(input, p)
  THEN parseTypeAssignments_set(input, types, parseTypeAssignment(input, p))
  ELSE Ok(p, types)

parseModule_end(input, moduleName, types) ==
  Then(types, Returning(expectKeyword(input, types.p, Kw_END),
                        [name |-> moduleName.v, types |-> types.v]))

parseModule_types(input, moduleName, begin) ==
  Then(begin,
       parseModule_end(input, moduleName,
         parseTypeAssignments(input, skipWhitespaceAndComments(input, begin.p),
                              << >>)))

parseModule_begin(input, moduleName, assign) ==
  Then(assign, parseModule_types(input, moduleName,
                                 expectKeyword(input, assign.p, Kw_BEGIN)))

parseModule_assign(input, moduleName, definitions) ==
  Then(definitions, parseModule_begin(input, moduleName,
                                      expectToken(input, definitions.p, Tk_Assign)))

parseModule_definitions(input, moduleName) ==
  Then(moduleName, parseModule_assign(input, moduleName,
                                      expectKeyword(input, moduleName.p,
                                                    Kw_DEFINITIONS)))

parseModule(input, p) == parseModule_definitions(input, parseIdentifier(input, p))

\* the loop of parse
RECURSIVE parseModules(_, _, _)

parseModules_push(input, modules, module) ==
  Then(module, parseModules(input, skipWhitespaceAndComments(input, module.p),
                            Append(modules, module.v)))

parseModules(input, p, modules) ==
  IF ~isAtEnd(input, p) THEN parseModules_push(input, modules, parseModule(input, p))
  ELSE Ok(p, modules)

\* Asn1Parser.parse(content)
parse(content) ==
  parseModules(content,
               skipWhitespaceAndComments(content, [position |-> 0, line |-> 1,
                                                   column |-> 1]),
               << >>)

(***************************************************************************)
(* part_004 (compiler): Asn1Compiler and Specification.  The maps modules, *)
(* module.types and globalTypes are kept as their entries in insertion     *)
(* order; resolving is the set of the full names being compiled.           *)
(***************************************************************************)
CompileError(message) == [ok |-> FALSE, err |-> "CompileError", message |-> message]

Anonymous == << "A", "n", "o", "n", "y", "m", "o", "u", "s" >>

\* parsedType.name || 'Anonymous'
typeNameOf(parsedType) == IF Len(parsedType.name) = 0 THEN Anonymous ELSE parsedType.name

resolveDefinedType(parsedType, moduleName, modules, globalTypes) ==
  LET definedTypeName == IF parsedType.constraints = None THEN None
                         ELSE parsedType.constraints[1].definedType
      name == definedTypeName[1]
      hasModule == MapHas(modules, moduleName)
      currentModule == MapGet(modules, moduleName)
  IN IF definedTypeName = None \/ Len(name) = 0
     THEN CompileError("Defined type missing reference")
     ELSE IF hasModule /\ MapHas(currentModule.types, name)
     THEN [ok |-> TRUE, type |-> MapGet(currentModule.types, name)]
     ELSE IF MapHas(globalTypes, name)
     THEN [ok |-> TRUE, type |-> MapGet(globalTypes, name)]
     ELSE CompileError("Undefined type reference")

RECURSIVE compileType(_, _, _, _, _)

\* parsedType.members.map(member => ...) of compileSequenceType from member i
\* on: the member objects, or the error the first failing member throws.  The
\* member object gets name, type, optional and defaultValue; member.tag is
\* not read.
RECURSIVE compileMembers(_, _, _, _, _, _)

compileMembers_memberObj(member, type, rest) ==
  Then(rest,
       [ok |-> TRUE,
        members |-> << Member(member.name, type.type,
                              IF member.optional # None THEN member.optional[1]
                              ELSE FALSE,
                              IF member.default # None THEN member.default[1]
                              ELSE Undefined) >> \o rest.members])

compileMembers_rest(members, i, moduleName, modules, globalTypes, resolving, type) ==
  Then(type,
       compileMembers_memberObj(members[i], type,
         compileMembers(members, i + 1, moduleName, modules, globalTypes, resolving)))

compileMembers(members, i, moduleName, modules, globalTypes, resolving) ==
  IF i > Len(members) THEN [ok |-> TRUE, members |-> << >>]
  ELSE compileMembers_rest(members, i, moduleName, modules, globalTypes, resolving,
         compileType(members[i], moduleName, modules, globalTypes, resolving))

compileSequenceType_new(members) ==
  Then(members, [ok |-> TRUE, type |-> SequenceT(members.members)])

compileSequenceType(parsedType, moduleName, modules, globalTypes, resolving) ==
  IF parsedType.members = None THEN CompileError("SEQUENCE type missing members")
  ELSE compileSequenceType_new(
         compileMembers(parsedType.members[1], 1, moduleName, modules, globalTypes,
                        resolving))

compileSequenceOfType_new(elementType) ==
  Then(elementType, [ok |-> TRUE, type |-> SequenceOfT(elementType.type)])

compileSequenceOfType(parsedType, moduleName, modules, globalTypes, resolving) ==
  IF parsedType.elementType = None
  THEN CompileError("SEQUENCE OF type missing element type")
  ELSE compileSequenceOfType_new(
         compileType(parsedType.elementType[1], moduleName, modules, globalTypes,
                     resolving))

\* parsedType.choices.map(choice => ...) of compileChoiceType from choice i on
RECURSIVE compileChoices(_, _, _, _, _, _)

compileChoices_choiceObj(choice, type, rest) ==
  Then(rest,
       [ok |-> TRUE,
        choices |-> << IF choice.tag # None
                       THEN Tagged(choice.name, choice.tag[1], type.type)
                       ELSE Untagged(choice.name, type.type) >> \o rest.choices])

compileChoices_rest(choices, i, moduleName, modules, globalTypes, resolving, type) ==
  Then(type,
       compileChoices_choiceObj(choices[i], type,
         compileChoices(choices, i + 1, moduleName, modules, globalTypes, resolving)))

compileChoices(choices, i, moduleName, modules, globalTypes, resolving) ==
  IF i > Len(choices) THEN [ok |-> TRUE, choices |-> << >>]
  ELSE compileChoices_rest(choices, i, moduleName, modules, globalTypes, resolving,
         compileType(choices[i], moduleName, modules, globalTypes, resolving))

compileChoiceType_new(choices) ==
  Then(choices, [ok |-> TRUE, type |-> ChoiceT(choices.choices)])

compileChoiceType(parsedType, moduleName, modules, globalTypes, resolving) ==
  IF parsedType.choices = None THEN CompileError("CHOICE type missing choices")
  ELSE compileChoiceType_new(
         compileChoices(parsedType.choices[1], 1, moduleName, modules, globalTypes,
                        resolving))

compileEnumeratedType(parsedType) ==
  IF parsedType.constraints = None \/ parsedType.constraints[1].values = None
  THEN CompileError("ENUMERATED type missing values")
  ELSE [ok |-> TRUE,
        type |-> [kind |-> "ENUMERATED", values |-> parsedType.constraints[1].values[1]]]

compileTypeInternal(parsedType, moduleName, modules, globalTypes, resolving) ==
  CASE parsedType.type = "INTEGER" -> [ok |-> TRUE, type |-> IntegerT]
    [] parsedType.type = "BOOLEAN" -> [ok |-> TRUE, type |-> BooleanT]
    [] parsedType.type = "OCTET_STRING" -> [ok |-> TRUE, type |-> OctetStringT]
    [] parsedType.type = "NULL" -> [ok |-> TRUE, type |-> NullT]
    [] parsedType.type = "ENUMERATED" -> compileEnumeratedType(parsedType)
    [] parsedType.type = "SEQUENCE" ->
         compileSequenceType(parsedType, moduleName, modules, globalTypes, resolving)
    [] parsedType.type = "SEQUENCE_OF" ->
         compileSequenceOfType(parsedType, moduleName, modules, globalTypes, resolving)
    [] parsedType.type = "CHOICE" ->
         compileChoiceType(parsedType, moduleName, modules, globalTypes, resolving)
    [] parsedType.type = "DEFINED" ->
         resolveDefinedType(parsedType, moduleName, modules, globalTypes)
    [] OTHER -> CompileError("Unsupported type")

\* `${moduleName}.${typeName}`
fullNameOf(parsedType, moduleName) == moduleName \o << "." >> \o typeNameOf(parsedType)

\* the full name is added to resolving for the time of the call and removed
\* when it returns or throws, so resolving is the full names of the calls
\* in progress
compileType(parsedType, moduleName, modules, globalTypes, resolving) ==
  IF fullNameOf(parsedType, moduleName) \in resolving
  THEN CompileError("Circular reference detected")
  ELSE compileTypeInternal(parsedType, moduleName, modules, globalTypes,
                           resolving \cup {fullNameOf(parsedType, moduleName)})

\* the first pass of compile: an empty module under each module name
RECURSIVE createModules(_, _, _)
createModules(parsedModules, i, modules) ==
  IF i > Len(parsedModules) THEN modules
  ELSE createModules(parsedModules, i + 1,
                     MapSet(modules, parsedModules[i].name,
                            [name |-> parsedModules[i].name, types |-> << >>]))

\* the second pass of compile from type j of module i on
RECURSIVE compileTypes(_, _, _, _, _)

\* an error thrown out of compile's second pass, with this.modules and
\* this.globalTypes as they are left on the instance
compileTypes_thrown(thrown, modules, globalTypes) ==
  [ok |-> FALSE, err |-> thrown.err, message |-> thrown.message,
   leftModules |-> modules, leftTypes |-> globalTypes]

\* "module.types.set(typeName, compiledType)" and the entry of globalTypes
compileTypes_set(parsedModules, i, j, modules, globalTypes, compiledType) ==
  LET moduleName == parsedModules[i].name
      typeName == parsedModules[i].types[j][1]
  IN IF ~compiledType.ok THEN compileTypes_thrown(compiledType, modules, globalTypes)
     ELSE compileTypes(parsedModules, i, j + 1,
                       MapSet(modules, moduleName,
                              [MapGet(modules, moduleName) EXCEPT
                                 !.types = MapSet(@, typeName, compiledType.type)]),
                       IF MapHas(globalTypes, typeName)
                       THEN MapDelete(globalTypes, typeName)
                       ELSE MapSet(globalTypes, typeName, compiledType.type))

compileTypes(parsedModules, i, j, modules, globalTypes) ==
  IF i > Len(parsedModules) THEN [ok |-> TRUE, modules |-> modules, types |-> globalTypes]
  ELSE IF j > Len(parsedModules[i].types)
  THEN compileTypes(parsedModules, i + 1, 1, modules, globalTypes)
  ELSE compileTypes_set(parsedModules, i, j, modules, globalTypes,
         compileType(parsedModules[i].types[j][2], parsedModules[i].name, modules,
                     globalTypes, {}))

\* Asn1Compiler.compile(parsedModules)
compile(parsedModules) ==
  compileTypes(parsedModules, 1, 1, createModules(parsedModules, 1, << >>), << >>)

\* this.modules and this.globalTypes of the instance after compile has
\* returned or thrown: compile clears the two Map objects and fills them
\* again, and the specification it returns holds these same objects
compile_maps(outcome) ==
  IF outcome.ok THEN [modules |-> outcome.modules, types |-> outcome.types]
  ELSE [modules |-> outcome.leftModules, types |-> outcome.leftTypes]

\* the try / catch of compileString around the parse and the compilation: an error
\* that is not a CompileError is replaced by a CompileError
compileString_catch(parsedModules) ==
  IF ~parsedModules.ok THEN CompileError("Compilation failed")
  ELSE compile(parsedModules.v)

\* compileString(content): a Specification, or the error thrown
compileString(content) == compileString_catch(parse(content))

\* Specification.encode(typeName, value)
Specification_encode(specification, typeName, value) ==
  IF ~MapHas(specification.types, typeName) THEN CompileError("Type not found")
  ELSE Encode(MapGet(specification.types, typeName), value)

\* "return result.value" of Specification.decode
Specification_decode_value(result) ==
  IF ~result.ok THEN result ELSE [ok |-> TRUE, value |-> result.value]

\* Specification.decode handing back the codec's whole result, value and length
Specification_decode_wholeResult(specification, typeName, d) ==
  IF ~MapHas(specification.types, typeName) THEN CompileError("Type not found")
  ELSE Decode(MapGet(specification.types, typeName), d, 0)

\* Specification.decode(typeName, data)
Specification_decode(specification, typeName, d) ==
  IF ~MapHas(specification.types, typeName) THEN CompileError("Type not found")
  ELSE Specification_decode_value(Decode(MapGet(specification.types, typeName), d, 0))

(***************************************************************************)
(* Schema texts.  A schema is written as its tokens, and its text is the   *)
(* tokens joined: tightly (a space only between two tokens that would      *)
(* otherwise run together), with the separator sep put into the gaps of    *)
(* the set wide (gap g lies between token g and token g + 1).              *)
(***************************************************************************)
Kw_OF == << "O", "F" >>

LBrace == << "{" >>

RBrace == << "}" >>

LParen == << "(" >>

RParen == << ")" >>

Comma == << "," >>

DotDot == << ".", "." >>

\* module header and footer tokens around the assignments
ModuleTokens(name, assignments) ==
  << name, Kw_DEFINITIONS, Tk_Assign, Kw_BEGIN >> \o assignments \o << Kw_END >>

\* Short ::= INTEGER (-1..1)  Data ::= OCTET STRING (SIZE(4))
\* Rec ::= SEQUENCE { id Short, data OCTET STRING (SIZE(4)) }
ConstraintTokens ==
  ModuleTokens(<< "T" >>,
    << << "S", "h", "o", "r", "t" >>, Tk_Assign, Kw_INTEGER, LParen, << "-", "1" >>,
       DotDot, << "1" >>, RParen,
       << "D", "a", "t", "a" >>, Tk_Assign, Kw_OCTET, Kw_STRING, LParen, Kw_SIZE, LParen,
       << "4" >>, RParen, RParen,
       << "R", "e", "c" >>, Tk_Assign, Kw_SEQUENCE, LBrace, << "i", "d" >>,
       << "S", "h", "o", "r", "t" >>, Comma, << "d", "a", "t", "a" >>, Kw_OCTET, Kw_STRING,
       LParen, Kw_SIZE, LParen, << "4" >>, RParen, RParen, RBrace >>)

\* Rec ::= SEQUENCE { a INTEGER OPTIONAL, b [1] BOOLEAN DEFAULT TRUE }
MemberTokens ==
  ModuleTokens(<< "M" >>,
    << << "R", "e", "c" >>, Tk_Assign, Kw_SEQUENCE, LBrace,
       << "a" >>, Kw_INTEGER, Kw_OPTIONAL, Comma,
       << "b" >>, << "[" >>, << "1" >>, << "]" >>, Kw_BOOLEAN, Kw_DEFAULT, Kw_TRUE,
       RBrace >>)

\* Status ::= ENUMERATED { ok(0), warn, fail(-1) }
EnumeratedTokens ==
  ModuleTokens(<< "E" >>,
    << << "S", "t", "a", "t", "u", "s" >>, Tk_Assign, Kw_ENUMERATED, LBrace,
       << "o", "k" >>, LParen, << "0" >>, RParen, Comma,
       << "w", "a", "r", "n" >>, Comma,
       << "f", "a", "i", "l" >>, LParen, << "-", "1" >>, RParen, RBrace >>)

\* Ping ::= SEQUENCE { id INTEGER }  Req ::= CHOICE { ping [1] Ping, flag [2] BOOLEAN }
BackwardTokens ==
  ModuleTokens(<< "B" >>,
    << << "P", "i", "n", "g" >>, Tk_Assign, Kw_SEQUENCE, LBrace, << "i", "d" >>,
       Kw_INTEGER, RBrace,
       << "R", "e", "q" >>, Tk_Assign, Kw_CHOICE, LBrace,
       << "p", "i", "n", "g" >>, << "[" >>, << "1" >>, << "]" >>, << "P", "i", "n", "g" >>,
       Comma, << "f", "l", "a", "g" >>, << "[" >>, << "2" >>, << "]" >>, Kw_BOOLEAN,
       RBrace >>)

\* the same with the CHOICE first, as in the README's message schema
ForwardTokens ==
  ModuleTokens(<< "F" >>,
    << << "R", "e", "q" >>, Tk_Assign, Kw_CHOICE, LBrace,
       << "p", "i", "n", "g" >>, << "[" >>, << "1" >>, << "]" >>, << "P", "i", "n", "g" >>,
       Comma, << "f", "l", "a", "g" >>, << "[" >>, << "2" >>, << "]" >>, Kw_BOOLEAN,
       RBrace,
       << "P", "i", "n", "g" >>, Tk_Assign, Kw_SEQUENCE, LBrace, << "i", "d" >>,
       Kw_INTEGER, RBrace >>)

\* Item ::= INTEGER  List ::= SEQUENCE OF Item
\* Resp ::= SEQUENCE { id INTEGER, items SEQUENCE OF Item }
SequenceOfTokens ==
  ModuleTokens(<< "L" >>,
    << << "I", "t", "e", "m" >>, Tk_Assign, Kw_INTEGER,
       << "L", "i", "s", "t" >>, Tk_Assign, Kw_SEQUENCE, Kw_OF, << "I", "t", "e", "m" >>,
       << "R", "e", "s", "p" >>, Tk_Assign, Kw_SEQUENCE, LBrace, << "i", "d" >>,
       Kw_INTEGER, Comma, << "i", "t", "e", "m", "s" >>, Kw_SEQUENCE, Kw_OF,
       << "I", "t", "e", "m" >>, RBrace >>)

\* A ::= INTEGER  B ::= NULL  A ::= BOOLEAN
DuplicateTokens ==
  ModuleTokens(<< "D" >>,
    << << "A" >>, Tk_Assign, Kw_INTEGER, << "B" >>, Tk_Assign, Kw_NULL,
       << "A" >>, Tk_Assign, Kw_BOOLEAN >>)

\* three modules that each declare A, the second one B as well
CollisionTokens ==
  ModuleTokens(<< "M", "1" >>, << << "A" >>, Tk_Assign, Kw_INTEGER >>)
    \o ModuleTokens(<< "M", "2" >>, << << "A" >>, Tk_Assign, Kw_BOOLEAN,
                                       << "B" >>, Tk_Assign, Kw_NULL >>)
    \o ModuleTokens(<< "M", "3" >>, << << "A" >>, Tk_Assign, Kw_NULL >>)

\* A ::= SEQUENCE { x B }  B ::= SEQUENCE { y A }
CycleTokens ==
  ModuleTokens(<< "C" >>,
    << << "A" >>, Tk_Assign, Kw_SEQUENCE, LBrace, << "x" >>, << "B" >>, RBrace,
       << "B" >>, Tk_Assign, Kw_SEQUENCE, LBrace, << "y" >>, << "A" >>, RBrace >>)

\* texts with an error: an unknown character, a missing type, a missing END
UnknownCharacterTokens ==
  ModuleTokens(<< "U" >>, << << "A" >>, Tk_Assign, << "?" >>, Kw_INTEGER >>)

MissingTypeTokens ==
  ModuleTokens(<< "U" >>, << << "A" >>, Tk_Assign, << "B" >>, Tk_Assign, Kw_INTEGER >>)

MissingEndTokens ==
  << << "U" >>, Kw_DEFINITIONS, Tk_Assign, Kw_BEGIN, << "A" >>, Tk_Assign, Kw_INTEGER >>

Space == << " " >>

Newline == << "\n" >>

LineComment == << "-", "-", " ", "c", "\n" >>

Separators == {Space, Newline, LineComment}

\* the separator of the tight text: a space where two tokens would run together
TightSeparator(left, right) ==
  IF isAlphaNumeric(left[Len(left)]) /\ isAlphaNumeric(right[1]) THEN Space ELSE << >>

\* the text of the tokens from token i on
RECURSIVE TextFrom(_, _, _, _)
TextFrom(tokens, wide, sep, i) ==
  IF i > Len(tokens) THEN << >>
  ELSE IF i = Len(tokens) THEN tokens[i]
  ELSE tokens[i]
         \o (IF i \in wide THEN sep ELSE TightSeparator(tokens[i], tokens[i + 1]))
         \o TextFrom(tokens, wide, sep, i + 1)

Text(w) == TextFrom(w.tokens, w.wide, w.sep, 1)

Tight(tokens) == [tokens |-> tokens, wide |-> {}, sep |-> Space]

\* the gaps before and inside the parentheses of the schema
ParenDepth(tokens, g) ==
  Cardinality({i \in 1..g : tokens[i] = LParen})
    - Cardinality({i \in 1..g : tokens[i] = RParen})

ParenGaps(tokens) ==
  {g \in 1..(Len(tokens) - 1) : tokens[g + 1] = LParen \/ ParenDepth(tokens, g) > 0}

\* the ways a schema is written: tightly, with one gap widened by a
\* separator, and with a space in every gap before or inside parentheses
Writings(tokens) ==
  {Tight(tokens)}
    \cup {[tokens |-> tokens, wide |-> {g}, sep |-> s] :
            g \in 1..(Len(tokens) - 1), s \in Separators}
    \cup {[tokens |-> tokens, wide |-> ParenGaps(tokens), sep |-> Space]}

\* a module M1 declaring A, then a module whose types B and A refer to each
\* other: M1 { A ::= INTEGER }  S { B ::= SEQUENCE { x A }  A ::= SEQUENCE { y B } }
ShadowedCycleTokens ==
  ModuleTokens(<< "M", "1" >>, << << "A" >>, Tk_Assign, Kw_INTEGER >>)
    \o ModuleTokens(<< "S" >>,
         << << "B" >>, Tk_Assign, Kw_SEQUENCE, LBrace, << "x" >>, << "A" >>, RBrace,
            << "A" >>, Tk_Assign, Kw_SEQUENCE, LBrace, << "y" >>, << "B" >>, RBrace >>)

\* a member named like the member it lies in, and a member named like the
\* type it lies in:
\* N { Outer ::= SEQUENCE { data SEQUENCE { data INTEGER } } }
\* O { Info ::= SEQUENCE { Info INTEGER } }
SameNameTokens ==
  ModuleTokens(<< "N" >>,
    << << "O", "u", "t", "e", "r" >>, Tk_Assign, Kw_SEQUENCE, LBrace,
       << "d", "a", "t", "a" >>, Kw_SEQUENCE, LBrace, << "d", "a", "t", "a" >>,
       Kw_INTEGER, RBrace, RBrace >>)
    \o ModuleTokens(<< "O" >>,
         << << "I", "n", "f", "o" >>, Tk_Assign, Kw_SEQUENCE, LBrace,
            << "I", "n", "f", "o" >>, Kw_INTEGER, RBrace >>)

Schemas ==
  << ConstraintTokens, MemberTokens, EnumeratedTokens, BackwardTokens, ForwardTokens,
     SequenceOfTokens, DuplicateTokens, CollisionTokens, CycleTokens,
     ShadowedCycleTokens, SameNameTokens, UnknownCharacterTokens, MissingTypeTokens,
     MissingEndTokens >>

\* the modules the parser makes of a tightly written schema
ParsedModules(tokens) == parse(Text(Tight(tokens))).v

\* L { List ::= SEQUENCE OF INTEGER } as a parsed module
SequenceOfModule ==
  [name |-> << "L" >>,
   types |-> << << << "L", "i", "s", "t" >>,
                   [ParsedType("SEQUENCE_OF") EXCEPT
                      !.name = << "L", "i", "s", "t" >>,
                      !.elementType = Some(ParsedType("INTEGER"))] >> >>]

\* the parsed modules compile is called on: M1, M2, M3, B, F, C, M, N, O, S
\* and L
ModuleCatalogue ==
  ParsedModules(CollisionTokens) \o ParsedModules(BackwardTokens)
    \o ParsedModules(ForwardTokens) \o ParsedModules(CycleTokens)
    \o ParsedModules(MemberTokens) \o ParsedModules(SameNameTokens)
    \o << ParsedModules(ShadowedCycleTokens)[2], SequenceOfModule >>

\* lists of up to MaxModules different modules of the catalogue
MaxModules == 3

ModuleLists ==
  {q \in UNION {[1..n -> 1..Len(ModuleCatalogue)] : n \in 1..MaxModules} :
     \A i, j \in 1..Len(q) : i # j => q[i] # q[j]}

\* the type names of the modules of a specification, and one that none has
UnknownName == << "N", "o", "n", "e" >>

ModuleTypeNames(specification) ==
  UNION {{specification.modules[i][2].types[j][1] :
            j \in 1..Len(specification.modules[i][2].types)} :
           i \in 1..Len(specification.modules)}

\* the codec Specification.encode / decode calls for a type name, if any
CalledCodec(specification, name) ==
  IF MapHas(specification.types, name) THEN MapGet(specification.types, name)
  ELSE NoType

\* values handed to the facade for a type name
FacadeValues(specification, name) ==
  IF MapHas(specification.types, name)
  THEN Values(MapGet(specification.types, name), FALSE) \cup {Null}
  ELSE {Null, Num(0)}

(***************************************************************************)
(* Calls on the parser, the compiler and the Specification facade          *)
(***************************************************************************)
\* new Asn1Parser().parse(content)
ParseCall ==
  /\ pc = "idle"
  /\ \E i \in 1..Len(Schemas) : \E w \in Writings(Schemas[i]) :
       /\ written' = w
       /\ schema' = Text(w)
       /\ parsed' = parse(Text(w))
  /\ pc' = "parsed"
  /\ UNCHANGED <<typ, val, enc, data, dec, source, spec, called>>
  /\ UNCHANGED <<heapVars, loopVars>>

\* new Asn1Compiler().compile(parsedModules)
CompileCall ==
  /\ pc = "idle"
  /\ \E q \in ModuleLists : source' = [i \in 1..Len(q) |-> ModuleCatalogue[q[i]]]
  /\ spec' = compile(source')
  /\ pc' = "compiled"
  /\ UNCHANGED <<typ, val, enc, data, dec, schema, written, parsed, called>>
  /\ UNCHANGED <<heapVars, loopVars>>

\* compileString(content)
CompileStringCall ==
  /\ pc = "idle"
  /\ \E i \in 1..Len(Schemas) : \E w \in Writings(Schemas[i]) :
       /\ written' = w
       /\ schema' = Text(w)
       /\ spec' = compileString(Text(w))
  /\ pc' = "loaded"
  /\ UNCHANGED <<typ, val, enc, data, dec, parsed, source, called>>
  /\ UNCHANGED <<heapVars, loopVars>>

\* spec.encode(typeName, value) on the Specification compileString returned
SpecificationEncodeCall ==
  /\ pc = "loaded"
  /\ spec.ok
  /\ \E n \in ModuleTypeNames(spec) \cup {UnknownName} :
       \E v \in FacadeValues(spec, n) :
         /\ called' = n
         /\ typ' = CalledCodec(spec, n)
         /\ val' = v
         /\ enc' = Specification_encode(spec, n, v)
  /\ pc' = "specEncoded"
  /\ UNCHANGED <<data, dec, schema, written, parsed, source, spec>>
  /\ UNCHANGED <<heapVars, loopVars>>

\* octets that follow an encoding in the caller's buffer: none, padding, a
\* further frame, the head of a long-form length
TrailingOctets == {<< >>, << 0 >>, << 255 >>, << 2, 1, 5 >>, << 48, 0 >>, << 4, 129 >>}

\* spec.decode(typeName, buffer) on the output of spec.encode followed by
\* trailing octets
SpecificationDecodeCall ==
  /\ pc = "specEncoded"
  /\ enc.ok
  /\ \E n \in ModuleTypeNames(spec) \cup {UnknownName} : \E x \in TrailingOctets :
       /\ called' = n
       /\ typ' = CalledCodec(spec, n)
       /\ data' = enc.bytes \o x
       /\ dec' = Specification_decode(spec, n, enc.bytes \o x)
  /\ pc' = "specDecoded"
  /\ UNCHANGED <<val, enc, schema, written, parsed, source, spec>>
  /\ UNCHANGED <<heapVars, loopVars>>

(***************************************************************************)
(* Calls of compile on Asn1Compiler instances.  A specification is the     *)
(* record { modules: this.modules, types: this.globalTypes } of references *)
(* to the instance's Map objects, and new Specification(specification)     *)
(* keeps these references: what a specification holds is what the maps of  *)
(* its instance hold.                                                      *)
(***************************************************************************)
\* one-module lists of the catalogue
SingleModuleLists == {q \in ModuleLists : Len(q) = 1}

\* what the specification returned by instance c holds now
SpecificationOf(c) == registries[c]

\* the first compile call of the program, on instance c
FirstCompileCall ==
  /\ pc = "idle"
  /\ \E q \in SingleModuleLists : source' = [i \in 1..Len(q) |-> ModuleCatalogue[q[i]]]
  /\ spec' = compile(source')
  /\ \E c \in Compilers :
       /\ registries' = [registries EXCEPT ![c] = compile_maps(spec')]
       /\ held' = IF spec'.ok THEN Some(c) ELSE None
       /\ returned' = IF spec'.ok THEN compile_maps(spec') ELSE NoResult
  /\ pc' = IF spec'.ok THEN "holding" ELSE "thrown"
  /\ UNCHANGED <<typ, val, enc, data, dec, schema, written, parsed, called>>
  /\ UNCHANGED loopVars

\* a later compile call, on the same instance or on another one, while the
\* first specification is in use
LaterCompileCall ==
  /\ pc = "holding"
  /\ \E q \in SingleModuleLists : source' = [i \in 1..Len(q) |-> ModuleCatalogue[q[i]]]
  /\ spec' = compile(source')
  /\ \E c \in Compilers : registries' = [registries EXCEPT ![c] = compile_maps(spec')]
  /\ pc' = "recompiled"
  /\ UNCHANGED <<typ, val, enc, data, dec, schema, written, parsed, called>>
  /\ UNCHANGED <<held, returned>>
  /\ UNCHANGED loopVars

NextCompiler == FirstCompileCall \/ LaterCompileCall

SpecCompiler == Init /\ [][NextCompiler]_vars

NextSchema ==
  \/ ParseCall
  \/ CompileCall
  \/ CompileStringCall
  \/ SpecificationEncodeCall
  \/ SpecificationDecodeCall

SpecSchema == Init /\ [][NextSchema]_vars

(***************************************************************************)
(* src/index.ts: hexToBytes and bytesToHex                                 *)
(***************************************************************************)
\* what "throw new Error(...)" gives the caller
Error == [ok |-> FALSE, err |-> "Error"]

\* hexToBytes(hex): the bytes, or the error thrown
hexToBytes(hex) ==
  LET cleanHex == StripNonHex(hex)
  IN IF Len(cleanHex) % 2 # 0 THEN Error
     ELSE [ok |-> TRUE,
           bytes |-> [i \in 1..(Len(cleanHex) \div 2) |->
                        HexValue(cleanHex[2 * i - 1]) * 16 + HexValue(cleanHex[2 * i])]]

\* byte.toString(16): the base-16 digits of the byte, lowercase, "0" for 0
toString16(byte) ==
  IF byte = 0 THEN << "0" >>
  ELSE [i \in 1..Len(Digits(byte, 4)) |-> HexChars[Digits(byte, 4)[i] + 1]]

\* String.prototype.padStart(targetLength, padString) with a one-character pad
padStart(chars, targetLength, pad) ==
  IF Len(chars) >= targetLength THEN chars
  ELSE [i \in 1..(targetLength - Len(chars)) |-> pad] \o chars

\* Array.prototype.join('') of strings
RECURSIVE join(_)
join(strings) == IF Len(strings) = 0 THEN << >> ELSE Head(strings) \o join(Tail(strings))

\* bytesToHex without the padStart
bytesToHex_unpadded(bytes) ==
  join([i \in 1..Len(bytes) |-> toString16(bytes[i])])

\* bytesToHex(bytes)
bytesToHex(bytes) ==
  join([i \in 1..Len(bytes) |-> padStart(toString16(bytes[i]), 2, "0")])

(***************************************************************************)
(* Calls on the tag, length and hex utilities                              *)
(***************************************************************************)
\* octets handed to decodeTag: every single octet, every two-octet
\* high-tag-number head, longer heads, with and without a last octet
TagInputs ==
  {<< b >> : b \in 0..255}
    \cup {<< f, b >> : f \in {31, 63, 159, 191}, b \in 0..255}
    \cup {<< 31, a, b >> : a \in EdgeOctets, b \in EdgeOctets}
    \cup {<< >>, << 31, 129, 130, 131, 132, 133, 134, 1 >>,
          << 31, 129, 130, 131, 132, 133, 6 >>, << 31, 129, 130, 131, 132, 133 >>}

\* octets handed to decodeLength: short forms, long forms of one to five
\* length octets, complete and cut short
LengthInputs ==
  {<< b >> : b \in 0..255}
    \cup {<< 129, b >> : b \in 0..255}
    \cup {<< 130, a, b >> : a \in EdgeOctets, b \in EdgeOctets}
    \cup {<< 131, a, b, c >> : a \in {0, 1, 128, 255}, b \in {0, 255}, c \in {0, 1, 255}}
    \cup {<< 132, a, b, c, e >> :
            a \in {0, 1, 127, 128, 255}, b \in {0, 255}, c \in {0, 255}, e \in {0, 250, 255}}
    \cup {<< >>, << 132, 1, 2, 3 >>, << 133, 1, 2, 3, 4, 5 >>, << 128, 0, 0 >>,
          << 255, 1 >>}

\* the offsets of a call: the head of the data, and behind one leading octet
Offsets == {0, 1}

\* decodeTag(data, offset)
DecodeTagCall ==
  /\ pc = "idle"
  /\ \E d \in TagInputs : \E offset \in Offsets :
       /\ data' = (IF offset = 1 THEN << 48 >> ELSE << >>) \o d
       /\ val' = Num(offset)
       /\ dec' = decodeTag((IF offset = 1 THEN << 48 >> ELSE << >>) \o d, offset)
  /\ pc' = "tagDecoded"
  /\ UNCHANGED <<typ, enc>>
  /\ UNCHANGED <<schemaVars, heapVars, loopVars>>

\* decodeLength(data, offset)
DecodeLengthCall ==
  /\ pc = "idle"
  /\ \E d \in LengthInputs : \E offset \in Offsets :
       /\ data' = (IF offset = 1 THEN << 4 >> ELSE << >>) \o d
       /\ val' = Num(offset)
       /\ dec' = decodeLength((IF offset = 1 THEN << 4 >> ELSE << >>) \o d, offset)
  /\ pc' = "lengthDecoded"
  /\ UNCHANGED <<typ, enc>>
  /\ UNCHANGED <<schemaVars, heapVars, loopVars>>

\* the octets bytesToHex is called on
HexOctets == {0, 1, 10, 15, 16, 127, 128, 255}

HexBytes == UNION {[1..n -> HexOctets] : n \in 0..MaxOctets}

\* the texts hexToBytes is called on: up to MaxHexChars characters, hex
\* digits of both cases and others
MaxHexChars == 3

HexTextAlphabet == {"0", "9", "a", "F", "g", " "}

HexTexts == UNION {[1..n -> HexTextAlphabet] : n \in 0..MaxHexChars}

\* bytesToHex(bytes)
BytesToHexCall ==
  /\ pc = "idle"
  /\ \E b \in HexBytes :
       /\ val' = Bytes(b)
       /\ enc' = [ok |-> TRUE, text |-> bytesToHex(b)]
  /\ pc' = "hexed"
  /\ UNCHANGED <<typ, data, dec>>
  /\ UNCHANGED <<schemaVars, heapVars, loopVars>>

\* hexToBytes(text) on the text bytesToHex returned
HexToBytesBackCall ==
  /\ pc = "hexed"
  /\ dec' = hexToBytes(enc.text)
  /\ pc' = "hexedBack"
  /\ UNCHANGED <<typ, val, enc, data>>
  /\ UNCHANGED <<schemaVars, heapVars, loopVars>>

\* hexToBytes(text)
HexToBytesCall ==
  /\ pc = "idle"
  /\ \E h \in HexTexts :
       /\ val' = Str(h)
       /\ dec' = hexToBytes(h)
  /\ pc' = "unhexed"
  /\ UNCHANGED <<typ, enc, data>>
  /\ UNCHANGED <<schemaVars, heapVars, loopVars>>

\* bytesToHex(bytes) on the bytes hexToBytes returned
BytesToHexBackCall ==
  /\ pc = "unhexed"
  /\ dec.ok
  /\ enc' = [ok |-> TRUE, text |-> bytesToHex(dec.bytes)]
  /\ pc' = "unhexedBack"
  /\ UNCHANGED <<typ, val, data, dec>>
  /\ UNCHANGED <<schemaVars, heapVars, loopVars>>

NextUtil ==
  \/ DecodeTagCall
  \/ DecodeLengthCall
  \/ BytesToHexCall
  \/ HexToBytesBackCall
  \/ HexToBytesCall
  \/ BytesToHexBackCall

SpecUtil == Init /\ [][NextUtil]_vars

(***************************************************************************)
(* Reference notions of X.690 the properties are stated with               *)
(***************************************************************************)
\* the octets read as an unsigned big-endian number
RECURSIVE Unsigned(_)
Unsigned(octets) ==
  IF Len(octets) = 0 THEN 0
  ELSE Unsigned(SubSeq(octets, 1, Len(octets) - 1)) * 256 + octets[Len(octets)]

\* the octets (at most three) read as an n-octet two's-complement number
TwosComplement(octets) ==
  IF octets[1] >= 128 THEN Unsigned(octets) - 256 ^ Len(octets) ELSE Unsigned(octets)

\* the definite-length octets of a length below 65536
DefiniteLength(n) ==
  IF n <= 127 THEN << n >>
  ELSE IF n <= 255 THEN << 129, n >>
  ELSE << 130, n \div 256, n % 256 >>

\* a value up to the representation of its integers and the key order of
\* its objects
RECURSIVE Norm(_)
Norm(v) ==
  CASE v.k \in {"number", "bigint"} -> [k |-> "integer", i |-> v.i]
    [] v.k = "array" -> [k |-> "array", n |-> [i \in 1..Len(v.a) |-> Norm(v.a[i])]]
    [] v.k = "object" ->
         [k |-> "object",
          m |-> [key \in {v.e[i][1] : i \in 1..Len(v.e)} |-> Norm(Get(v, key))]]
    [] OTHER -> v

(***************************************************************************)
(* C1. INTEGER round-trip: decoding what IntegerType.encode produced for   *)
(* an accepted integer v yields v.                                         *)
(***************************************************************************)
C1_IntegerRoundTrip ==
  (pc = "decoded" /\ typ.kind = "INTEGER")
    => (dec.ok /\ dec.value.i = val.i)

(***************************************************************************)
(* C2. Byte-exact negative INTEGER encoding: for a negative v the content  *)
(* octets, read as an n-octet two's-complement number, equal v, behind the *)
(* tag 02 and the length n; so -42 encodes as 02 01 D6.                    *)
(***************************************************************************)
C2_NegativeIntegerOctets ==
  (pc = "encoded" /\ typ.kind = "INTEGER" /\ enc.ok /\ val.i < 0)
    => LET content == SubSeq(enc.bytes, 3, Len(enc.bytes))
       IN /\ enc.bytes[1] = 2
          /\ enc.bytes[2] = Len(content)
          /\ Len(content) <= 3 => TwosComplement(content) = val.i
          /\ val.i = -42 => enc.bytes = << 2, 1, 214 >>

(***************************************************************************)
(* C3. INTEGER decoding is the inverse of two's-complement encoding:       *)
(* decodeSignedInteger of a non-empty content of n octets returns          *)
(* unsigned(content) when the first octet's MSB is clear and               *)
(* unsigned(content) - 256^n when it is set.                               *)
(***************************************************************************)
C3_DecodeIsTwosComplement ==
  (pc \in {"intReceived", "intDecoded"} /\ Len(data) \in 1..3)
    => (dec.ok /\ dec.value = TwosComplement(data))

(***************************************************************************)
(* C4. Integer minimality: the content produced by encodeSignedInteger is  *)
(* one octet long, or its first nine bits are neither all 0 nor all 1, and *)
(* then dropping a leading 00 or FF octet changes the decoded value; zero  *)
(* encodes as the single octet 00.                                         *)
(***************************************************************************)
C4_IntegerMinimality ==
  (pc = "intEncoded" /\ enc.ok)
    => LET c == enc.bytes
       IN /\ Len(c) >= 1
          /\ Len(c) > 1 => /\ ~(c[1] = 0 /\ c[2] < 128)
                           /\ ~(c[1] = 255 /\ c[2] >= 128)
          /\ (Len(c) > 1 /\ c[1] \in {0, 255})
               => decodeSignedInteger(Tail(c)).value # decodeSignedInteger(c).value
          /\ val.i = 0 => c = << 0 >>

\* encodeSignedInteger has put a sign octet in front of a negative and of a
\* positive value, and has encoded zero
C4_Witness ==
  /\ pc = "intEncoded"
  /\ enc.ok
  /\ \/ val.i < 0 /\ Len(enc.bytes) = 2 /\ enc.bytes[1] = 255
     \/ val.i > 0 /\ Len(enc.bytes) = 3 /\ enc.bytes[1] = 0
     \/ val.i = 0

(***************************************************************************)
(* C5. SEQUENCE round-trip: decoding what SequenceType.encode produced for *)
(* an accepted value v succeeds and yields the member-name to value        *)
(* mapping of v (a member omitted in v appears only with its declared      *)
(* DEFAULT; an omitted OPTIONAL member stays absent).  Stated on the       *)
(* values without negative integers, which INTEGER members round-trip.     *)
(***************************************************************************)
\* no integer inside the value is negative
RECURSIVE NonNegative(_)
NonNegative(v) ==
  CASE v.k \in {"number", "bigint"} -> v.i >= 0
    [] v.k = "array" -> \A i \in 1..Len(v.a) : NonNegative(v.a[i])
    [] v.k = "object" -> \A i \in 1..Len(v.e) : NonNegative(v.e[i][2])
    [] OTHER -> TRUE

\* v with the declared defaults of the members it omits
RECURSIVE WithDefaults(_, _, _)
WithDefaults(members, v, i) ==
  IF i > Len(members) THEN v
  ELSE LET member == members[i]
           filled == IF /\ Get(v, member.name).k = "undefined"
                        /\ member.defaultValue.k # "undefined"
                     THEN Obj(Put(v.e, member.name, member.defaultValue))
                     ELSE v
       IN WithDefaults(members, filled, i + 1)

C5_SequenceRoundTrip ==
  (pc = "decoded" /\ typ.kind = "SEQUENCE" /\ NonNegative(val))
    => (dec.ok /\ Norm(dec.value) = Norm(WithDefaults(typ.members, val, 1)))

(***************************************************************************)
(* C6. CHOICE uniqueness: when the alternatives' tags (class and number)   *)
(* are pairwise distinct, decoding the encoding of {a: v} yields a         *)
(* single-entry mapping with key a and value v.  Stated on the values      *)
(* without negative integers, which INTEGER alternatives round-trip.       *)
(***************************************************************************)
\* the tag of an alternative: context-specific [n] when tagged, the type's
\* own universal tag otherwise
AlternativeTag(choice) ==
  IF choice.hasTag THEN << "context", choice.tag >>
  ELSE << "universal", tagOf(choice.type) >>

DistinctTags(type) ==
  \A i, j \in 1..Len(type.choices) :
    i # j => AlternativeTag(type.choices[i]) # AlternativeTag(type.choices[j])

C6_ChoiceUniqueness ==
  (pc = "decoded" /\ typ.kind = "CHOICE" /\ DistinctTags(typ) /\ NonNegative(val))
    => /\ dec.ok
       /\ Len(dec.value.e) = 1
       /\ dec.value.e[1][1] = val.e[1][1]
       /\ Norm(dec.value.e[1][2]) = Norm(val.e[1][2])

(***************************************************************************)
(* C7. Tagged CHOICE framing: the encoding of a value whose alternative    *)
(* declares the context-specific tag n < 31 is the octet A0 + n, the       *)
(* definite length of the alternative's own encoding, and that encoding;   *)
(* an untagged alternative is emitted as its own encoding.                 *)
(***************************************************************************)
C7_TaggedChoiceFraming ==
  (pc = "encoded" /\ typ.kind = "CHOICE" /\ enc.ok)
    => LET choice == choicesGet(typ, val.e[1][1])
           inner == Encode(choice.type, val.e[1][2]).bytes
       IN /\ (choice.hasTag /\ choice.tag < 31)
               => enc.bytes = << 160 + choice.tag >> \o DefiniteLength(Len(inner)) \o inner
          /\ ~choice.hasTag => enc.bytes = inner

\* a tagged alternative has been encoded with a short and with a long length
\* field, and an untagged one too
C7_Witness ==
  /\ pc = "encoded"
  /\ typ.kind = "CHOICE"
  /\ enc.ok
  /\ \/ enc.bytes[1] = 166 /\ enc.bytes[2] = 130
     \/ enc.bytes[1] = 161 /\ enc.bytes[2] < 128
     \/ ~choicesGet(typ, val.e[1][1]).hasTag

(***************************************************************************)
(* C8. Tag prefix: the first octet of an encoding is 30 for SEQUENCE and   *)
(* SEQUENCE OF, 02 for INTEGER, 01 for BOOLEAN, 04 for OCTET STRING, 05    *)
(* for NULL and 0A for ENUMERATED.                                         *)
(***************************************************************************)
C8_TagPrefix ==
  (pc = "encoded" /\ enc.ok /\ typ.kind # "CHOICE")
    => enc.bytes[1] = (CASE typ.kind \in {"SEQUENCE", "SEQUENCE_OF"} -> 48
                         [] typ.kind = "INTEGER" -> 2
                         [] typ.kind = "BOOLEAN" -> 1
                         [] typ.kind = "OCTET_STRING" -> 4
                         [] typ.kind = "NULL" -> 5
                         [] typ.kind = "ENUMERATED" -> 10)

\* a SEQUENCE OF, a NULL and an ENUMERATED value have been encoded
C8_Witness ==
  /\ pc = "encoded"
  /\ enc.ok
  /\ typ.kind \in {"SEQUENCE_OF", "NULL", "ENUMERATED"}

(***************************************************************************)
(* C9. Length self-description: an encoding is tag octets, length octets   *)
(* and content, the length field equals the number of content octets, and  *)
(* decoding it at offset 0 consumes exactly its byte count.                *)
(***************************************************************************)
\* the number of tag octets at the head of the octets
RECURSIVE TagOctetsFrom(_, _)
TagOctetsFrom(octets, i) ==
  IF i > Len(octets) THEN i
  ELSE IF octets[i] < 128 THEN i ELSE TagOctetsFrom(octets, i + 1)

TagOctets(octets) == IF octets[1] % 32 # 31 THEN 1 ELSE TagOctetsFrom(octets, 2)

\* the octets are one tag, one definite length and that many content octets
SelfDescribing(octets) ==
  /\ Len(octets) >= 2
  /\ LET t == TagOctets(octets)
         first == octets[t + 1]
         k == IF first < 128 THEN 0 ELSE first - 128
     IN /\ t + 1 + k <= Len(octets)
        /\ k <= 2
        /\ first # 128
        /\ LET field == IF k = 0 THEN first ELSE Unsigned(SubSeq(octets, t + 2, t + 1 + k))
           IN Len(octets) = t + 1 + k + field

C9_LengthSelfDescription ==
  (pc = "decoded")
    => /\ SelfDescribing(enc.bytes)
       /\ dec.ok
       /\ dec.length = Len(enc.bytes)

(***************************************************************************)
(* C10. SEQUENCE ordering: the key order of the input mapping does not     *)
(* change the bytes: every reordering of the entries of the value encodes  *)
(* to the same result, the member encodings in declared order.             *)
(***************************************************************************)
Reorderings(entries) ==
  {[i \in 1..Len(entries) |-> entries[p[i]]] :
     p \in {q \in [1..Len(entries) -> 1..Len(entries)] :
              \A i, j \in 1..Len(entries) : i # j => q[i] # q[j]}}

\* the encodings of the members present in v, or defaulted, in declared order
RECURSIVE InDeclaredOrder(_, _, _)
InDeclaredOrder(members, v, i) ==
  IF i > Len(members) THEN << >>
  ELSE LET member == members[i]
           given == Get(v, member.name)
           encoded == IF given.k # "undefined" THEN Encode(member.type, given)
                      ELSE IF member.optional THEN [ok |-> TRUE, bytes |-> << >>]
                      ELSE Encode(member.type, member.defaultValue)
       IN (IF encoded.ok THEN encoded.bytes ELSE << >>)
            \o InDeclaredOrder(members, v, i + 1)

C10_SequenceOrdering ==
  (pc = "encoded" /\ typ.kind = "SEQUENCE" /\ val.k = "object")
    => /\ \A other \in Reorderings(val.e) : Encode(typ, Obj(other)) = enc
       /\ enc.ok => LET content == InDeclaredOrder(typ.members, val, 1)
                    IN enc.bytes = << 48 >> \o DefiniteLength(Len(content)) \o content

\* a value whose keys are not in declared order has been encoded
C10_Witness ==
  /\ pc = "encoded"
  /\ typ.kind = "SEQUENCE"
  /\ val.k = "object"
  /\ enc.ok
  /\ Len(val.e) >= 2
  /\ val.e[1][1] = typ.members[Len(typ.members)].name

(***************************************************************************)
(* Reference notions of the schema language the properties are stated with *)
(***************************************************************************)
\* the type names a parsed type refers to, at any depth
RECURSIVE References(_)
References(parsedType) ==
  CASE parsedType.type = "DEFINED" ->
         IF parsedType.constraints = None THEN {}
         ELSE {parsedType.constraints[1].definedType[1]}
    [] parsedType.type = "SEQUENCE" /\ parsedType.members # None ->
         UNION {References(parsedType.members[1][i]) :
                  i \in 1..Len(parsedType.members[1])}
    [] parsedType.type = "CHOICE" /\ parsedType.choices # None ->
         UNION {References(parsedType.choices[1][i]) :
                  i \in 1..Len(parsedType.choices[1])}
    [] parsedType.type = "SEQUENCE_OF" /\ parsedType.elementType # None ->
         References(parsedType.elementType[1])
    [] OTHER -> {}

\* the modules of a list that declare a type name
DeclaringModules(list, name) == {i \in 1..Len(list) : MapHas(list[i].types, name)}

DeclaredNames(list) ==
  UNION {{list[i].types[j][1] : j \in 1..Len(list[i].types)} : i \in 1..Len(list)}

\* the module whose type a reference made in module i means: module i when
\* it declares the name, else the only module that does; 0 when there is none
Target(list, i, name) ==
  IF MapHas(list[i].types, name) THEN i
  ELSE IF Cardinality(DeclaringModules(list, name)) = 1
  THEN CHOOSE j \in DeclaringModules(list, name) : TRUE
  ELSE 0

\* the types << module, name >> the definition of a type refers to
Referred(list, node) ==
  {<< Target(list, node[1], name), name >> :
     name \in {ref \in References(MapGet(list[node[1]].types, node[2])) :
                 Target(list, node[1], ref) # 0}}

RECURSIVE ReachableFrom(_, _)
ReachableFrom(list, nodes) ==
  LET more == nodes \cup UNION {Referred(list, node) : node \in nodes}
  IN IF more = nodes THEN nodes ELSE ReachableFrom(list, more)

\* some type's definition reaches itself through references
HasCycle(list) ==
  \E i \in 1..Len(list) : \E j \in 1..Len(list[i].types) :
    << i, list[i].types[j][1] >>
      \in ReachableFrom(list, Referred(list, << i, list[i].types[j][1] >>))

\* every reference means a declared type
Resolvable(list) ==
  \A i \in 1..Len(list) : \A j \in 1..Len(list[i].types) :
    \A name \in References(list[i].types[j][2]) : Target(list, i, name) # 0

\* some type refers to a type declared later in its own module
HasForwardReference(list) ==
  \E i \in 1..Len(list) : \E j, k \in 1..Len(list[i].types) :
    j < k /\ list[i].types[k][1] \in References(list[i].types[j][2])

(***************************************************************************)
(* C11. Collision removal: after compile, a type name declared in two or   *)
(* more modules of the list is absent from the global type registry, and a *)
(* name declared in exactly one module is present and maps to that         *)
(* module's codec.                                                         *)
(***************************************************************************)
C11_CollisionRemoval ==
  (pc = "compiled" /\ spec.ok) =>
    \A name \in DeclaredNames(source) :
      LET declaring == DeclaringModules(source, name)
      IN /\ Cardinality(declaring) >= 2 => ~MapHas(spec.types, name)
         /\ Cardinality(declaring) = 1 =>
              /\ MapHas(spec.types, name)
              /\ \A i \in declaring :
                   MapGet(spec.types, name)
                     = MapGet(MapGet(spec.modules, source[i].name).types, name)

(***************************************************************************)
(* C12. SEQUENCE OF parsing: a schema in which a type is assigned          *)
(* SEQUENCE OF T parses, and that type is a SEQUENCE_OF whose element is   *)
(* the type T that follows OF.                                             *)
(***************************************************************************)
C12_SequenceOfParsing ==
  pc = "parsed" =>
    \A i \in 3..(Len(written.tokens) - 2) :
      (/\ written.tokens[i - 1] = Tk_Assign
       /\ written.tokens[i] = Kw_SEQUENCE
       /\ written.tokens[i + 1] = Kw_OF) =>
        /\ parsed.ok
        /\ \E m \in 1..Len(parsed.v) :
             /\ MapHas(parsed.v[m].types, written.tokens[i - 2])
             /\ LET type == MapGet(parsed.v[m].types, written.tokens[i - 2])
                IN /\ type.type = "SEQUENCE_OF"
                   /\ type.elementType # None
                   /\ References(type.elementType[1]) = {written.tokens[i + 2]}

(***************************************************************************)
(* C13. Constraint whitespace tolerance: a schema that compiles when       *)
(* written tightly also compiles with a space before and inside its        *)
(* constraint parentheses, and the two specifications encode every value   *)
(* of every type alike.                                                    *)
(***************************************************************************)
C13_ConstraintWhitespace ==
  (/\ pc = "loaded"
   /\ \A i \in 1..Len(written.tokens) : written.tokens[i] # Kw_ENUMERATED
   /\ ParenGaps(written.tokens) # {}
   /\ written.wide = ParenGaps(written.tokens)
   /\ written.sep = Space
   /\ compileString(Text(Tight(written.tokens))).ok) =>
    /\ spec.ok
    /\ LET tight == compileString(Text(Tight(written.tokens)))
       IN \A n \in ModuleTypeNames(tight) : \A v \in FacadeValues(tight, n) :
            Specification_encode(spec, n, v) = Specification_encode(tight, n, v)

(***************************************************************************)
(* C14. Whitespace and comments between tokens: a schema that parses when  *)
(* written tightly parses to the same tree when whitespace or a comment is *)
(* put between any two adjacent tokens.                                    *)
(***************************************************************************)
C14_SeparatorsSkipped ==
  (/\ pc = "parsed"
   /\ Cardinality(written.wide) = 1
   /\ parse(Text(Tight(written.tokens))).ok) =>
    /\ parsed.ok
    /\ parsed.v = parse(Text(Tight(written.tokens))).v

\* the members or alternatives of a parsed type and of its codec
ParsedParts(parsedType) ==
  IF parsedType.type = "SEQUENCE" THEN parsedType.members[1]
  ELSE IF parsedType.type = "CHOICE" THEN parsedType.choices[1]
  ELSE << >>

CodecParts(type) ==
  IF type.kind = "SEQUENCE" THEN type.members
  ELSE IF type.kind = "CHOICE" THEN type.choices
  ELSE << >>

(***************************************************************************)
(* C15. Forward references: a module list without cycles whose references  *)
(* all mean declared types, and in which a type refers to a type declared  *)
(* later in its own module, compiles, and a member or alternative that is  *)
(* a reference to a type of its module gets that type's codec.             *)
(***************************************************************************)
C15_ForwardReferences ==
  (/\ pc = "compiled"
   /\ Resolvable(source)
   /\ ~HasCycle(source)
   /\ HasForwardReference(source)) =>
    /\ spec.ok
    /\ \A i \in 1..Len(source) : \A j \in 1..Len(source[i].types) :
         LET parsedType == source[i].types[j][2]
             compiled == MapGet(spec.modules, source[i].name).types
             parts == ParsedParts(parsedType)
         IN \A k \in 1..Len(parts) :
              (/\ parts[k].type = "DEFINED"
               /\ MapHas(source[i].types, parts[k].constraints[1].definedType[1])) =>
                CodecParts(MapGet(compiled, parsedType.name))[k].type
                  = MapGet(compiled, parts[k].constraints[1].definedType[1])

(***************************************************************************)
(* C16. Cycle rejection: compile on a module list in which some type's     *)
(* definition reaches itself through references returns no specification;  *)
(* it fails with a CompileError.                                           *)
(***************************************************************************)
C16_CycleRejection ==
  (pc = "compiled" /\ HasCycle(source)) => (~spec.ok /\ spec.err = "CompileError")

\* the parsed type the one module of a schema text assigns to a name
AssignedType(text, name) == MapGet(parse(text).v[1].types, name)

\* the first member SequenceType.encode writes for a value (a member is left
\* out when it is optional and the value has none), 0 when it writes none
FirstWritten(members, value) ==
  LET kept == {i \in 1..Len(members) :
                 ~(/\ Get(value, members[i].name).k \in {"undefined", "null"}
                   /\ members[i].optional)}
  IN IF kept = {} THEN 0 ELSE CHOOSE i \in kept : \A j \in kept : i <= j

\* where the content of a frame with a one-octet tag starts
ContentOffset(frame) == IF frame[2] < 128 THEN 2 ELSE 2 + (frame[2] - 128)

\* the identifier octets of the context-specific tag [n], primitive or constructed
ContextTagOctets(n) ==
  {encodeTag(n, CLASS_CONTEXT_SPECIFIC)[1],
   encodeTag(n, BitOr(CLASS_CONTEXT_SPECIFIC, ENCODING_CONSTRUCTED))[1]}

(***************************************************************************)
(* C17. SEQUENCE member tagging: when a SEQUENCE of a compiled schema is   *)
(* encoded and the first member written is declared with a tag [n], the    *)
(* content of the SEQUENCE starts with the context-specific tag [n], as    *)
(* the encoding of a tagged CHOICE alternative does.                       *)
(***************************************************************************)
C17_MemberTagging ==
  (/\ pc = "specEncoded"
   /\ enc.ok
   /\ typ.kind = "SEQUENCE"
   /\ Len(parse(schema).v) = 1
   /\ FirstWritten(typ.members, val) # 0
   /\ AssignedType(schema, called).members[1][FirstWritten(typ.members, val)].tag
        # None) =>
    enc.bytes[ContentOffset(enc.bytes) + 1]
      \in ContextTagOctets(
            AssignedType(schema, called).members[1][FirstWritten(typ.members,
                                                                 val)].tag[1])

(***************************************************************************)
(* C18. Parse errors are a distinguishable kind: when the schema text      *)
(* given to compileString does not parse, what compileString throws is a   *)
(* ParseError whose line and column are the numbers of the place of the    *)
(* failure.                                                                *)
(***************************************************************************)
C18_ParseErrorKind ==
  (pc = "loaded" /\ ~parse(schema).ok) =>
    /\ ~spec.ok
    /\ spec.err = "ParseError"
    /\ spec.line = Num(parse(schema).messageLine)
    /\ spec.column = Num(parse(schema).messageColumn)

\* a module of the tokens assigns the same type name twice
HasDuplicateAssignment(tokens) ==
  \E i, j \in 2..(Len(tokens) - 1) :
    /\ i < j
    /\ tokens[i + 1] = Tk_Assign
    /\ tokens[j + 1] = Tk_Assign
    /\ tokens[i] = tokens[j]
    /\ tokens[i] # Kw_DEFINITIONS
    /\ \A k \in i..j : tokens[k] # Kw_END

(***************************************************************************)
(* C19. Duplicate definitions are rejected: compileString on a schema in   *)
(* which a module assigns the same type name twice returns no              *)
(* specification; it fails with a CompileError.                            *)
(***************************************************************************)
C19_DuplicateRejected ==
  (pc = "loaded" /\ HasDuplicateAssignment(written.tokens)) =>
    (~spec.ok /\ spec.err = "CompileError")

\* what the facade makes of a codec's decode result: its value alone
ValueOf(result) == IF result.ok THEN [ok |-> TRUE, value |-> result.value] ELSE result

(***************************************************************************)
(* C20 as stated. Facade lookup: Specification.encode and                  *)
(* Specification.decode fail with a CompileError when the type name is not *)
(* a key of the global type registry; otherwise they return exactly what   *)
(* that codec's encode, or its decode at offset 0, returns.                *)
(***************************************************************************)
C20_FacadeLookup_Stated ==
  /\ pc = "specEncoded" =>
       enc = IF MapHas(spec.types, called)
             THEN Encode(MapGet(spec.types, called), val)
             ELSE CompileError("Type not found")
  /\ pc = "specDecoded" =>
       dec = IF MapHas(spec.types, called)
             THEN Decode(MapGet(spec.types, called), data, 0)
             ELSE CompileError("Type not found")

(***************************************************************************)
(* C20. Facade lookup: Specification.encode and Specification.decode fail  *)
(* with a CompileError when the type name is not a key of the global type  *)
(* registry; otherwise encode returns exactly what that codec's encode     *)
(* returns, and decode returns the value of what that codec's decode at    *)
(* offset 0 returns, without the length, or the error that decode throws.  *)
(***************************************************************************)
C20_FacadeLookup ==
  /\ pc = "specEncoded" =>
       enc = IF MapHas(spec.types, called)
             THEN Encode(MapGet(spec.types, called), val)
             ELSE CompileError("Type not found")
  /\ pc = "specDecoded" =>
       dec = IF MapHas(spec.types, called)
             THEN ValueOf(Decode(MapGet(spec.types, called), data, 0))
             ELSE CompileError("Type not found")

\* the facade has decoded octets with a codec of the registry
C20_Witness ==
  /\ pc = "specDecoded"
  /\ MapHas(spec.types, called)
  /\ dec.ok
  /\ Len(data) > 0

(***************************************************************************)
(* C24. Tag verification on decode: the decode of a tagged codec fails     *)
(* with a DecodeError whenever the tag at the head of the input, class and *)
(* number, differs from the codec's universal tag; IntegerType.decode      *)
(* rejects a frame whose first octet is 82, the context-specific [2].      *)
(***************************************************************************)
\* the class of the tag octet: 0 universal, 1 application, 2 context-specific,
\* 3 private
TagClass(octet) == octet \div 64

C24_TagVerification ==
  (/\ pc = "received"
   /\ typ.kind # "CHOICE"
   /\ Len(data) > 0
   /\ data[1] % 32 # 31
   /\ (TagClass(data[1]) # 0 \/ data[1] % 32 # tagOf(typ)))
    => (~dec.ok /\ dec.err = "DecodeError")

(***************************************************************************)
(* C22. ENUMERATED round-trip: for an ENUMERATED codec whose declared      *)
(* numbers are pairwise distinct, decoding the encoding of a declared name *)
(* yields the name, decoding the encoding of a declared number yields the  *)
(* name declared for it, and decoding a frame whose content is a number    *)
(* that is not declared fails with a DecodeError.                          *)
(***************************************************************************)
DistinctNumbers(type) ==
  \A i, j \in 1..Len(type.values) : i # j => type.values[i][2] # type.values[j][2]

DeclaredNumbers(type) == {type.values[i][2] : i \in 1..Len(type.values)}

NameOfNumber(type, number) ==
  type.values[CHOOSE i \in 1..Len(type.values) : type.values[i][2] = number][1]

\* the octets are an ENUMERATED frame with a content of one to three octets
EnumeratedFrame(octets) ==
  /\ Len(octets) \in 3..5
  /\ octets[1] = TAG_ENUMERATED
  /\ octets[2] = Len(octets) - 2

C22_EnumeratedRoundTrip ==
  /\ (pc = "decoded" /\ typ.kind = "ENUMERATED" /\ DistinctNumbers(typ))
       => /\ dec.ok
          /\ val.k = "string" => dec.value = val
          /\ val.k = "number" => dec.value = Str(NameOfNumber(typ, val.i))
  /\ (/\ pc = "received"
      /\ typ.kind = "ENUMERATED"
      /\ DistinctNumbers(typ)
      /\ EnumeratedFrame(data)
      /\ TwosComplement(SubSeq(data, 3, Len(data))) \notin DeclaredNumbers(typ))
       => (~dec.ok /\ dec.err = "DecodeError")

(***************************************************************************)
(* C27. SequenceType.decode member walk: the members are tried in declared *)
(* order.  A member that decodes takes its octets; a member that fails to  *)
(* decode at the current content offset is passed over at the same offset  *)
(* when it is OPTIONAL or has a DEFAULT (a DEFAULT member getting its      *)
(* default value); a required member that fails, or that is left when the  *)
(* content is exhausted, makes decode fail with a DecodeError and no       *)
(* value.                                                                  *)
(***************************************************************************)
IsRequired(member) == ~member.optional /\ member.defaultValue.k = "undefined"

HasDefault(member) == member.defaultValue.k # "undefined"

\* the walk from member i (1-based) at content offset at: None when it
\* fails, else the set of the << name, value >> pairs it assigns
RECURSIVE MemberWalk(_, _, _, _)
MemberWalk(members, content, at, i) ==
  IF i > Len(members) THEN Some({})
  ELSE LET member == members[i]
           exhausted == at >= Len(content)
           decoded == IF exhausted THEN DecodeError ELSE Decode(member.type, content, at)
           rest == MemberWalk(members, content,
                              IF decoded.ok THEN at + decoded.length ELSE at, i + 1)
       IN IF ~decoded.ok /\ IsRequired(member) THEN None
          ELSE IF rest = None THEN None
          ELSE IF decoded.ok THEN Some(rest[1] \cup {<< member.name, decoded.value >>})
          ELSE IF HasDefault(member)
          THEN Some(rest[1] \cup {<< member.name, member.defaultValue >>})
          ELSE rest

C27_MemberWalk ==
  (/\ pc \in {"received", "decoded"}
   /\ typ.kind = "SEQUENCE"
   /\ decodeWithTag(typ, data, 0).ok)
    => LET walk == MemberWalk(typ.members, decodeWithTag(typ, data, 0).content, 0, 1)
       IN IF walk = None THEN ~dec.ok /\ dec.err = "DecodeError"
          ELSE /\ dec.ok
               /\ {<< dec.value.e[i][1], dec.value.e[i][2] >> : i \in 1..Len(dec.value.e)}
                    = walk[1]

\* a SEQUENCE frame has been decoded in which an OPTIONAL member was passed
\* over, a member took its octets, and a DEFAULT member failed to decode
\* before the content was exhausted and got its default value
C27_Witness ==
  /\ pc = "received"
  /\ typ = SettingsT
  /\ data = << 48, 6, 2, 1, 5, 2, 1, 6 >>
  /\ dec.ok
  /\ Get(dec.value, "retry") = Bool(TRUE)
  /\ Get(dec.value, "flag") = Undefined

(***************************************************************************)
(* C21. Trailing bytes are ignored by the facade: for a type T, an         *)
(* accepted value v and octets x, Specification.decode(T, encode(T, v)     *)
(* followed by x) returns what Specification.decode(T, encode(T, v))       *)
(* returns.                                                                *)
(***************************************************************************)
C21_TrailingBytesIgnored ==
  (pc = "specDecoded" /\ Specification_encode(spec, called, val) = enc)
    => dec = Specification_decode(spec, called, enc.bytes)

\* the facade has decoded, with the type that encoded it, an encoding
\* followed by a further frame
C21_Witness ==
  /\ pc = "specDecoded"
  /\ Specification_encode(spec, called, val) = enc
  /\ data = enc.bytes \o << 2, 1, 5 >>
  /\ dec.ok

(***************************************************************************)
(* C30. No spurious cycle errors: compile raises the circular-reference    *)
(* CompileError only for a module list in which some type's definition     *)
(* reaches itself through DEFINED references; a schema without such a      *)
(* cycle, like a SEQUENCE whose member data is a SEQUENCE with a member    *)
(* data, or a member named like the enclosing type, is not rejected as     *)
(* circular.                                                               *)
(***************************************************************************)
\* the call has thrown the CompileError of compileType's resolving check
RejectedAsCircular(outcome) ==
  ~outcome.ok /\ outcome.err = "CompileError"
    /\ outcome.message = "Circular reference detected"

C30_NoSpuriousCycleErrors ==
  /\ (pc = "compiled" /\ RejectedAsCircular(spec)) => HasCycle(source)
  /\ (pc = "loaded" /\ parse(schema).ok /\ RejectedAsCircular(spec))
       => HasCycle(parse(schema).v)

(***************************************************************************)
(* C28. Registries are fresh per compile: once a compile call has returned *)
(* a specification, a later compile call, on the same Asn1Compiler         *)
(* instance or on another one, leaves the module registry and the global   *)
(* type registry of that specification as they were when it was returned.  *)
(***************************************************************************)
C28_RegistriesFresh ==
  held # None => SpecificationOf(held[1]) = returned

(***************************************************************************)
(* C25. decodeLength: a first octet below 80 is the length, one octet      *)
(* consumed; a first octet 80 + k with 1 <= k <= 4 and k further octets    *)
(* available yields the unsigned big-endian value of those k octets, a     *)
(* non-negative number also when the first of them is 80 or more, with     *)
(* k + 1 octets consumed; k = 0 fails with the indefinite-length           *)
(* DecodeError and k > 4 with the length-too-large DecodeError.            *)
(***************************************************************************)
C25_DecodeLength ==
  (pc = "lengthDecoded" /\ val.i < Len(data))
    => LET first == data[val.i + 1]
           k == first - 128
           octets == SubSeq(data, val.i + 2, val.i + 1 + k)
       IN /\ first < 128 => dec = [ok |-> TRUE, length |-> first, octets |-> 1]
          /\ (k \in 1..4 /\ val.i + k < Len(data))
               => /\ dec.ok
                  /\ dec.octets = k + 1
                  /\ dec.length >= 0
                  /\ (k < 4 \/ octets[1] < 128) => dec.length = Unsigned(octets)
          /\ k = 0 => dec = DecodeErrorOf("Indefinite length not supported in this context")
          /\ k > 4 => dec = DecodeErrorOf("Length too large")

(***************************************************************************)
(* C26. decodeTag on truncated input: when the low five bits of the first  *)
(* octet are 31 and the input ends before an octet with its high bit clear *)
(* has been read, also when no further octet exists, decodeTag fails with  *)
(* a DecodeError and returns no tag number.                                *)
(***************************************************************************)
\* the high-tag-number octets after the first octet end with an octet below 80
TagNumberEnds(octets, offset) ==
  \E i \in (offset + 2)..Len(octets) : octets[i] < 128

C26_TruncatedTag ==
  (/\ pc = "tagDecoded"
   /\ val.i < Len(data)
   /\ data[val.i + 1] % 32 = 31
   /\ ~TagNumberEnds(data, val.i))
    => (~dec.ok /\ dec.err = "DecodeError")

(***************************************************************************)
(* C23. Hex utilities round-trip: hexToBytes(bytesToHex(b)) is b, and      *)
(* bytesToHex(b) is lowercase with exactly two digits per byte; for a text *)
(* h with an even number of hex digits bytesToHex(hexToBytes(h)) is h      *)
(* without its non-hex characters and with its letters lowercased; an odd  *)
(* number of hex digits is an error.                                       *)
(***************************************************************************)
LowerHexDigits ==
  {"0", "1", "2", "3", "4", "5", "6", "7", "8", "9", "a", "b", "c", "d", "e", "f"}

UpperHexLetters == {"A", "B", "C", "D", "E", "F"}

Lowercased(char) ==
  CASE char = "A" -> "a" [] char = "B" -> "b" [] char = "C" -> "c"
    [] char = "D" -> "d" [] char = "E" -> "e" [] char = "F" -> "f"
    [] OTHER -> char

\* the hex digits of a text, lowercased
HexDigitsOf(text) ==
  LET digits == SelectSeq(text, LAMBDA char : char \in LowerHexDigits \cup UpperHexLetters)
  IN [i \in 1..Len(digits) |-> Lowercased(digits[i])]

C23_HexRoundTrip ==
  /\ pc = "hexedBack"
       => /\ dec = [ok |-> TRUE, bytes |-> val.o]
          /\ Len(enc.text) = 2 * Len(val.o)
          /\ \A i \in 1..Len(enc.text) : enc.text[i] \in LowerHexDigits
  /\ pc = "unhexed" => (dec.ok <=> Len(HexDigitsOf(val.c)) % 2 = 0)
  /\ pc = "unhexedBack" => enc.text = HexDigitsOf(val.c)

\* a byte below 16 has come back through its two-digit text, and a text
\* with uppercase and non-hex characters has come back as its lowercase digits
C23_Witness ==
  \/ pc = "hexedBack" /\ val.o = << 10, 255 >> /\ enc.text = << "0", "a", "f", "f" >>
       /\ dec.ok
  \/ pc = "unhexedBack" /\ val.c = << "F", " ", "9" >> /\ enc.text = << "f", "9" >>

(***************************************************************************)
(* SequenceOfType.decode, one iteration of its loop at a time              *)
(***************************************************************************)

\* SEQUENCE OF OCTET STRING
OctetStringListT == SequenceOfT(OctetStringT)

\* SEQUENCE OF NULL
NullListT == SequenceOfT(NullT)

ListCodecs == {IntegerListT, OctetStringListT, NullListT, EmbeddedListT}

\* iterations of the loop that are followed
MaxIterations == 3

\* frames handed to SequenceOfType.decode: the encodings of short lists,
\* frames that are cut off or carry a foreign tag, elements that fail, and
\* elements whose length field has four octets with the top bit set
ListFrames ==
  {SequenceOfType_encode(IntegerListT, Arr(q)).bytes :
     q \in UNION {[1..n -> {Num(i) : i \in NestedInts}] : n \in 0..MaxElements}}
    \cup {SequenceOfType_encode(OctetStringListT, Arr(q)).bytes :
            q \in UNION {[1..n -> {Bytes(o) : o \in ShortOctetStrings}] : n \in 0..MaxElements}}
    \cup {<< 48, 2 * n >> \o [i \in 1..(2 * n) |-> IF i % 2 = 1 THEN 5 ELSE 0] : n \in 0..4}
    \cup {<< >>, << 4, 0 >>, << 48, 5, 2 >>, << 48, 2, 2, 5 >>, << 48, 3, 2, 1, 5, 9 >>,
          << 48, 4, 4, 0, 2, 0 >>,
          << 48, 6, 4, 132, 255, 255, 255, 250 >>,
          << 48, 6, 5, 132, 255, 255, 255, 250 >>,
          << 48, 6, 2, 132, 255, 255, 255, 250 >>,
          << 48, 6, 4, 132, 128, 0, 0, 0 >>,
          << 48, 8, 4, 0, 4, 132, 255, 255, 255, 248 >>,
          << 48, 9, 2, 1, 7, 4, 132, 255, 255, 255, 247 >>}

\* "const { content, totalLength } = this.decodeWithTag(data, offset);
\*  const result = []; let contentOffset = 0;"
SequenceOfDecodeCall ==
  /\ pc = "idle"
  /\ \E type \in ListCodecs : \E d \in ListFrames :
       LET f == decodeWithTag(type, d, 0)
       IN /\ typ' = type
          /\ data' = d
          /\ IF f.ok
             THEN /\ pc' = "listLoop"
                  /\ listContent' = f.content
                  /\ dec' = [ok |-> TRUE, value |-> Undefined, length |-> f.totalLength]
             ELSE /\ pc' = "listFailed"
                  /\ listContent' = << >>
                  /\ dec' = DecodeError
  /\ listOffset' = 0
  /\ listResult' = << >>
  /\ UNCHANGED <<val, enc, schemaVars, heapVars>>

\* one iteration of "while (contentOffset < content.length)": the element is
\* decoded at contentOffset, pushed, and contentOffset advanced by its length;
\* a thrown error is rethrown as a DecodeError
SequenceOfDecodeStep ==
  /\ pc = "listLoop"
  /\ listOffset < Len(listContent)
  /\ Len(listResult) < MaxIterations
  /\ LET decoded == Decode(typ.elementType, listContent, listOffset)
     IN IF decoded.ok
        THEN /\ listResult' = Append(listResult, decoded.value)
             /\ listOffset' = listOffset + decoded.length
             /\ UNCHANGED <<pc, dec>>
        ELSE /\ pc' = "listFailed"
             /\ dec' = DecodeError
             /\ UNCHANGED <<listOffset, listResult>>
  /\ UNCHANGED <<typ, val, enc, data, listContent, schemaVars, heapVars>>

\* "return { value: result, length: totalLength };"
SequenceOfDecodeReturn ==
  /\ pc = "listLoop"
  /\ ~(listOffset < Len(listContent))
  /\ pc' = "listDecoded"
  /\ dec' = [ok |-> TRUE, value |-> Arr(listResult), length |-> dec.length]
  /\ UNCHANGED <<typ, val, enc, data, schemaVars, heapVars, loopVars>>

NextLoop == SequenceOfDecodeCall \/ SequenceOfDecodeStep \/ SequenceOfDecodeReturn

SpecLoop == Init /\ [][NextLoop]_vars

(***************************************************************************)
(* C29. SequenceOfType.decode terminates on every finite input: each       *)
(* successfully decoded element advances the content offset by a positive  *)
(* number of bytes, so the loop ends by exhausting the content or by a     *)
(* DecodeError, also for elements whose long-form length has four octets   *)
(* with the top bit set.                                                   *)
(***************************************************************************)
C29_ElementsAdvance ==
  [][(pc = "listLoop" /\ pc' = "listLoop") => listOffset' > listOffset]_vars

====
